---- MODULE Spec2Model ----
(***************************************************************************)
(* A model of saltybet_asyncio: SaltybetClient's life cycle (init,         *)
(* run_forever, shutdown), its handler registry and the dispatch of        *)
(* status / mode transitions from _on_message, and the throttled fetch     *)
(* _get_html with its semaphore and its two wait generators.               *)
(*                                                                         *)
(* asyncio is cooperative: a coroutine runs without interruption from one  *)
(* await that suspends to the next, so every action below is one such      *)
(* stretch of code.                                                        *)
(***************************************************************************)
EXTENDS Integers, Sequences, FiniteSets, TLC

(***************************************************************************)
(* Bounds of the model                                                     *)
(***************************************************************************)
\* number of tasks that may call _get_html concurrently
NumCallers == 2
\* jitter resolution: durations are counted in units of 1/JitterRes second,
\* random() is one of 0 .. JitterRes-1 units
JitterRes == 2
\* number of values drawn from each wait generator in SpecGen
MaxYields == 7
\* number of registration calls of a user program that registers freely
MaxRegs == 3
\* number of exceptions raised out of sio.wait() in one run
MaxFaults == 2
\* the minutes a run of the session lasts
MaxNow == 30
\* the notifications a WebsocketClient gets in one run
MaxWsMsgs == 3
\* the calls of WebsocketClient.shutdown() in one run
MaxShutdowns == 2
\* the largest balance of the account
MaxFunds == 2

(***************************************************************************)
(* Enumerations                                                            *)
(***************************************************************************)
\* MatchStatus members used by the client
MatchStatus == {"UNKNOWN", "OPEN", "LOCKED", "RED_WINS", "BLUE_WINS", "DRAW"}

GameMode == {"UNKNOWN", "MATCHMAKING", "TOURNAMENT", "EXHIBITION"}

\* the ten trigger lists of the client, by event kind
Kinds == {"start", "end", "change", "open", "locked", "payout",
          "mode_change", "tournament", "exhibition", "matchmaking"}

\* handler functions of the user program (identities)
Handlers == {1, 2}

\* "status" field of state.json as the server may send it
RawStatus == {"open", "locked", "1", "2", "other"}

\* "alert" field of state.json
RawAlert == {"Tournament mode start!", "Exhibition mode start!", ""}

\* "remaining" field of state.json, by its ending
RawRemaining == {"in the bracket!", "exhibition matches left!",
                 "next tournament!", ""}

(***************************************************************************)
(* Pure functions of the client                                            *)
(***************************************************************************)
_status_to_MatchStatus(status) ==
    IF status = "open" THEN "OPEN"
    ELSE IF status = "locked" THEN "LOCKED"
    ELSE IF status = "1" THEN "RED_WINS"
    ELSE IF status = "2" THEN "BLUE_WINS"
    ELSE "UNKNOWN"

\* the GameMode part of _get_state
StateMode(alert, remaining) ==
    IF alert = "Tournament mode start!" THEN "TOURNAMENT"
    ELSE IF remaining = "in the bracket!" THEN "TOURNAMENT"
    ELSE IF alert = "Exhibition mode start!" THEN "EXHIBITION"
    ELSE IF remaining = "exhibition matches left!" THEN "EXHIBITION"
    ELSE IF remaining = "next tournament!" THEN "MATCHMAKING"
    ELSE "UNKNOWN"

\* a slip in the payout branch: RED_WINS is left out of the list
BettingKindNoRed(match_status) ==
    IF match_status = "OPEN" THEN "open"
    ELSE IF match_status = "LOCKED" THEN "locked"
    ELSE IF match_status \in {"BLUE_WINS", "DRAW"} THEN "payout"
    ELSE "none"

\* the specific trigger list _trigger_betting_change adds for a status
BettingKind(match_status) ==
    IF match_status = "OPEN" THEN "open"
    ELSE IF match_status = "LOCKED" THEN "locked"
    ELSE IF match_status \in {"RED_WINS", "BLUE_WINS", "DRAW"} THEN "payout"
    ELSE "none"

\* the specific trigger list _trigger_mode_change adds for a mode
ModeKind(game_mode) ==
    IF game_mode = "TOURNAMENT" THEN "tournament"
    ELSE IF game_mode = "EXHIBITION" THEN "exhibition"
    ELSE IF game_mode = "MATCHMAKING" THEN "matchmaking"
    ELSE "none"

Range(s) == {s[i] : i \in 1..Len(s)}

\* a registration without the membership test
RegisterAlways(trig, func) == Append(trig, func)

\* on_start, on_end, on_betting_*, on_mode_*: append unless already there
Register(trig, func) ==
    IF func \in Range(trig) THEN trig ELSE Append(trig, func)

\* "return func": what a registration call returns
RegisterResult(func) == func

(***************************************************************************)
(* The wait generators and the retry loop of _get_html                     *)
(***************************************************************************)
\* _get_html's normal_wait_gen: factor and max_wait, in seconds
NormalFactor == 7

NormalMax == 90

\* _get_html's limit_wait_gen: factor and max_wait, in seconds
LimitFactor == 90

LimitMax == 300

\* _get_html's default max_retries
DefaultMaxRetries == 10
\* "in_minutes() < 30": the minutes a logged-in answer is kept
TTL == 30
\* "pendulum.now().subtract(days=1)": the age of _last_login at first, in
\* minutes
DayMinutes == 1440

\* the retry budgets the callers pass
RetryBudgets == {1, DefaultMaxRetries}

\* the budget of the calls that run while the client shuts down
ShortBudget == 2

\* random(), in units
Jitter == 0..(JitterRes - 1)

\* time since the last request as _get_html may find it, in units (in_seconds()
\* gives whole seconds): none, twenty seconds, as long as the longest wait
SinceValues == {0, 20 * JitterRes, NormalMax * JitterRes}

\* a slip in the generator: the value over the cap is yielded as it is
WaitGeneratorNoCap(factor, max_wait, n, j) ==
    LET a == (factor * JitterRes * (2 ^ n)) + j IN
    IF a <= max_wait * JitterRes
    THEN [value |-> a, n |-> n + 1]
    ELSE [value |-> a, n |-> n]

\* one next() of _wait_generator(factor, max_wait) whose index is n, with
\* random() = j: the value it yields, in units, and its index afterwards
WaitGenerator(factor, max_wait, n, j) ==
    LET a == (factor * JitterRes * (2 ^ n)) + j IN
    IF a <= max_wait * JitterRes
    THEN [value |-> a, n |-> n + 1]
    ELSE [value |-> max_wait * JitterRes, n |-> n]

\* a generator kept on the client: a call goes on from the index the call
\* before it reached
KeptIndex(reached) == reached

\* "n = 0": _get_html makes both generators anew in every call, whatever index
\* the generators of the call before it had reached
FreshIndex(reached) == 0

\* a slip in the loop bound: one attempt too many
RetriesLeftOffByOne(i, max_retries) == i <= max_retries

\* "for i in range(max_retries)"
RetriesLeft(i, max_retries) == i < max_retries

\* a semaphore test that lets a caller in while the permit is out
CanAcquireAlways(sem) == sem >= 0

\* Semaphore.acquire goes on only while the value is positive
CanAcquire(sem) == sem > 0

\* a body that leaves the semaphore as it holds it, with no release
SemAfterExitKept(sem, how) == sem

\* acquire() and release() without a finally: an exception skips the release
SemAfterExitNoFinally(sem, how) == IF how = "return" THEN sem + 1 ELSE sem

\* "async with self._semaphore" releases however its body is left
\* (how: "return", "raise", "cancel")
SemAfterExit(sem, how) == sem + 1

\* a sleep whose CancelledError is swallowed: the loop goes on to the request
OnCancelSwallowed(pc) == IF pc \in {"pace_sleep", "limit_sleep"} THEN "get" ELSE "cancelled"

\* where _get_html goes when CancelledError is thrown into it at an await:
\* nothing catches it
OnCancel(pc) == "cancelled"

(***************************************************************************)
(* The user program: the registration calls it makes before it runs the    *)
(* client.  Two functions share the start, end and betting-change lists,   *)
(* one call repeats an earlier one, and no function is registered for      *)
(* exhibition mode.                                                        *)
(***************************************************************************)
Registrations ==
    << <<"start", 1>>, <<"start", 2>>, <<"end", 1>>, <<"end", 2>>,
       <<"change", 1>>, <<"change", 2>>, <<"change", 1>>,
       <<"open", 1>>, <<"locked", 1>>, <<"payout", 1>>,
       <<"mode_change", 1>>, <<"tournament", 1>>, <<"matchmaking", 1>> >>

\* the snapshot sequence of the dispatch-order scenario, by status
Scenario == <<"UNKNOWN", "OPEN", "LOCKED", "RED_WINS">>

(***************************************************************************)
(* State                                                                   *)
(***************************************************************************)
VARIABLES
    \* SaltybetClient fields
    triggers,        \* the _on_*_triggers lists, by kind
    started,         \* _started
    semaphore,       \* _semaphore: -1 is None, else the semaphore's value
    session,         \* session: "None", "open", "closed"
    sio,             \* sio: "None", "created", "connected", "disconnected"
    betting_status,  \* _betting_status
    game_mode,       \* _game_mode
    last_req,        \* _last_req: the request that set it (<<0, 0>>: __init__)
    \* tasks
    setup,           \* registration calls the user program has made
    last_reg,        \* the latest registration call and what it returned
    main_pc,         \* where the task running run_forever is
    main_i,          \* index of the start / end handler being awaited
    signal,          \* the shutdown signal has cancelled the tasks
    msgs,            \* the tasks running _on_message, by slot
    callers,         \* the tasks running _get_html
    \* observations
    start_calls,     \* invocations of each on_start handler
    end_calls,       \* invocations of each on_end handler
    last_snap,       \* the snapshot the latest _on_message got
    handler_failed,  \* some handler has raised
    early,           \* a notification was taken before init() had finished
    scen_pos,        \* snapshots so far are the first scen_pos of Scenario (-1: not)
    scen_mode,       \* the mode of the first snapshot
    last_end,        \* what the _get_html call that ended last had done
    gens,            \* generator objects that are only iterated, by track
    faults,          \* exceptions caught around sio.wait()
    connects,        \* calls of sio.connect
    login,           \* a coroutine that calls login(), and so init(), again
    totals,          \* _red_team_name, _red_bets, _blue_team_name, _blue_bets
    sess,            \* credentials, _logged_in, _last_login and the server
    pace,            \* one pacing decision of _get_html
    ws               \* a WebsocketClient and its notifications

registry_vars == <<triggers, setup, last_reg>>
life_vars == <<started, session, sio, main_pc, main_i, signal, start_calls,
               end_calls>>
disp_vars == <<betting_status, game_mode, msgs, last_snap, handler_failed,
               early, scen_pos, scen_mode>>
fetch_vars == <<callers, last_req, last_end>>
run_vars == <<faults, connects, login>>
side_vars == <<sess, pace, ws>>
vars == <<registry_vars, life_vars, disp_vars, fetch_vars, semaphore, gens,
          run_vars, totals, side_vars>>

Slots == 1..2

Callers == 1..NumCallers

\* the calls of WebsocketClient.shutdown()
ShutdownCalls == 1..MaxShutdowns

\* the two generators _get_html makes
Tracks == {"normal", "limit"}

Factor(t) == IF t = "normal" THEN NormalFactor ELSE LimitFactor

MaxWait(t) == IF t = "normal" THEN NormalMax ELSE LimitMax

\* a generator object nothing has been drawn from: n = 0
NoGen == [n |-> 0, count |-> 0, value |-> 0, before |-> 0, capped |-> FALSE]

\* the names and totals of __init__: "" and 0
NoData == 0
\* the names and totals of the snapshots
Data == {1, 2}

\* a WebsocketClient after __init__: running False, and no assignment to
\* _last_match_status or _last_game_mode ("unset"); first is how its first
\* _on_message went and against what it compared; running False, session
\* None; end_calls
\* counts the invocations of each on_end handler, disconnects the calls of
\* sio.disconnect that returned, downs holds the place of each shutdown() call
NoWs ==
    [pc |-> "idle", last_match_status |-> "unset", last_game_mode |-> "unset",
     msgs |-> 0, first |-> "none",
     against |-> [status |-> "none", mode |-> "none"],
     running |-> FALSE, session |-> "None",
     end_calls |-> [h \in Handlers |-> 0], disconnects |-> 0,
     downs |-> [k \in ShutdownCalls |-> [pc |-> "idle", i |-> 0]]]

\* no pacing decision has been taken
NoPace == [real |-> FALSE, elapsed |-> 0, wait |-> 0, since |-> -1, sleep |-> 0]

\* no call on the session has ended yet
NoOp ==
    [what |-> "none", value |-> FALSE, raised |-> FALSE, requests |-> 0,
     posted |-> FALSE, recheck |-> "none", creds |-> FALSE, age |-> 0,
     before |-> 0, since_ok |-> -1, fetched |-> FALSE, out |-> "None",
     asked |-> 0, funds |-> 0, bet |-> FALSE, sent |-> 0,
     since_verified |-> -1]

\* the session of __init__: no credentials, _logged_in False, _last_login a
\* day ago; the server has no session; no _login has succeeded (ok_at) and
\* no logged_in has found the login valid on the server (verified_at)
NoSess ==
    [creds |-> FALSE, logged_in |-> FALSE, last_login |-> 0 - DayMinutes,
     illuminati |-> FALSE, signed |-> FALSE, now |-> 0, ok_at |-> -1,
     verified_at |-> -1, op |-> NoOp]

\* login() has not been called
NoLogin == [pc |-> "idle", i |-> 0]

\* before the first registration call
NoReg == [real |-> FALSE, kind |-> "none", func |-> 0, again |-> FALSE, ret |-> 0]

NoMsg ==
    [pc |-> "none", status |-> "UNKNOWN", mode |-> "UNKNOWN",
     prev |-> [status |-> "UNKNOWN", mode |-> "UNKNOWN", real |-> FALSE],
     kind |-> "none", resume |-> "none", pending |-> {}, fired |-> <<>>,
     compared |-> FALSE, raised |-> "none", data |-> NoData, seen |-> NoData,
     got |-> "none"]

\* what last_end holds before any call has ended
NoEnd ==
    [real |-> FALSE, how |-> "none", max_retries |-> 0, reqs |-> 0,
     hits |-> 0, out |-> "None", cancelled_at |-> "none", late |-> 0,
     normal_n |-> 0, limit_n |-> 0, resp |-> "none"]

\* the indices of the two generators when a call makes them
NoStart == [normal_n |-> 0, limit_n |-> 0]

NoCall ==
    [pc |-> "idle", max_retries |-> 0, i |-> 0, normal_n |-> 0, limit_n |-> 0,
     sleep |-> 0, reqs |-> 0, hits |-> 0, out |-> "None", cancel |-> FALSE,
     cancelled_at |-> "none", late |-> 0, first |-> NoStart, resp |-> "none"]

Init ==
    /\ triggers = [k \in Kinds |-> <<>>]
    /\ started = FALSE
    /\ semaphore = -1
    /\ session = "None"
    /\ sio = "None"
    /\ betting_status = "UNKNOWN"
    /\ game_mode = "UNKNOWN"
    /\ last_req = <<0, 0>>
    /\ setup = 0
    /\ main_pc = "idle"
    /\ main_i = 0
    /\ signal = FALSE
    /\ msgs = [m \in Slots |-> NoMsg]
    /\ callers = [c \in Callers |-> NoCall]
    /\ start_calls = [h \in Handlers |-> 0]
    /\ end_calls = [h \in Handlers |-> 0]
    /\ last_snap = [status |-> "UNKNOWN", mode |-> "UNKNOWN", real |-> FALSE]
    /\ handler_failed = FALSE
    /\ early = FALSE
    /\ scen_pos = 0
    /\ scen_mode = "UNKNOWN"
    /\ last_end = NoEnd
    /\ last_reg = NoReg
    /\ faults = 0
    /\ connects = 0
    /\ login = NoLogin
    /\ totals = NoData
    /\ sess = NoSess
    /\ pace = NoPace
    /\ ws = NoWs
    /\ gens = [t \in Tracks |-> NoGen]

(***************************************************************************)
(* Registration                                                            *)
(***************************************************************************)
\* on_<kind>(func): the function joins the kind's list unless it is in it, and
\* is returned
OnKind(kind, func) ==
    /\ triggers' = [triggers EXCEPT ![kind] = Register(@, func)]
    /\ last_reg' = [real |-> TRUE, kind |-> kind, func |-> func,
                    again |-> func \in Range(triggers[kind]),
                    ret |-> RegisterResult(func)]
    /\ setup' = setup + 1

\* one on_<kind>(func) call of the user program, made before it runs the client
Setup ==
    /\ main_pc = "idle"
    /\ setup < Len(Registrations)
    /\ OnKind(Registrations[setup + 1][1], Registrations[setup + 1][2])
    /\ UNCHANGED <<gens, totals, side_vars, run_vars, life_vars, disp_vars, fetch_vars, semaphore>>

\* one on_<kind>(func) call of a user program that registers any function for
\* any kind, in any order and any number of times
Registers(kind, func) ==
    /\ main_pc = "idle"
    /\ setup < MaxRegs
    /\ OnKind(kind, func)
    /\ UNCHANGED <<gens, totals, side_vars, run_vars, life_vars, disp_vars, fetch_vars, semaphore>>

NextRegister == \E kind \in Kinds, func \in Handlers : Registers(kind, func)

\* the registry under any sequence of registration calls
SpecRegister == Init /\ [][NextRegister]_vars

(***************************************************************************)
(* run_forever, init and shutdown                                          *)
(***************************************************************************)
\* init(): the On_Start loop reaches handler number i
InvokeStart(i) ==
    IF i <= Len(triggers["start"])
    THEN /\ main_pc' = "start"
         /\ main_i' = i
         /\ start_calls' = [start_calls EXCEPT ![triggers["start"][i]] = @ + 1]
         /\ UNCHANGED started
    ELSE /\ main_pc' = "wait"
         /\ main_i' = 0
         /\ started' = TRUE
         /\ UNCHANGED start_calls

\* shutdown(): the On_End loop reaches handler number i
InvokeEnd(i) ==
    IF i <= Len(triggers["end"])
    THEN /\ main_pc' = "shutdown"
         /\ main_i' = i
         /\ end_calls' = [end_calls EXCEPT ![triggers["end"][i]] = @ + 1]
    ELSE /\ main_pc' = "disconnect"
         /\ main_i' = 0
         /\ UNCHANGED end_calls

\* run_forever() enters init(): semaphore, session and sio are created, and
\* the task awaits sio.connect
RunForever ==
    /\ main_pc = "idle"
    /\ setup = Len(Registrations)
    /\ semaphore' = IF semaphore = -1 THEN 1 ELSE semaphore
    /\ session' = IF session = "None" THEN "open" ELSE session
    /\ sio' = "created"
    /\ connects' = connects + 1
    /\ main_pc' = "connect"
    /\ UNCHANGED <<gens, totals, side_vars, faults, login, registry_vars, started, main_i, signal,
                   start_calls, end_calls, disp_vars, fetch_vars>>

\* sio.connect returns; init() goes on to the first on_start handler
Connected ==
    /\ main_pc = "connect"
    /\ ~signal
    /\ sio' = "connected"
    /\ IF started
       THEN main_pc' = "wait" /\ UNCHANGED <<main_i, started, start_calls>>
       ELSE InvokeStart(1)
    /\ UNCHANGED <<gens, totals, side_vars, run_vars, registry_vars, session, signal, end_calls, disp_vars,
                   fetch_vars, semaphore>>

\* sio.connect raises: the exception leaves init() and run_forever()
ConnectFails ==
    /\ main_pc = "connect"
    /\ ~signal
    /\ main_pc' = "crashed"
    /\ UNCHANGED <<gens, totals, side_vars, run_vars, registry_vars, started, session, sio, main_i, signal,
                   start_calls, end_calls, disp_vars, fetch_vars, semaphore>>

\* the awaited on_start handler returns
StartReturns ==
    /\ main_pc = "start"
    /\ ~signal
    /\ InvokeStart(main_i + 1)
    /\ UNCHANGED <<gens, totals, side_vars, run_vars, registry_vars, session, sio, signal, end_calls, disp_vars,
                   fetch_vars, semaphore>>

\* the awaited on_start handler raises: the exception leaves run_forever()
StartRaises ==
    /\ main_pc = "start"
    /\ ~signal
    /\ main_pc' = "crashed"
    /\ handler_failed' = TRUE
    /\ UNCHANGED <<gens, totals, side_vars, run_vars, registry_vars, started, session, sio, main_i, signal,
                   start_calls, end_calls, betting_status, game_mode, msgs,
                   last_snap, early, scen_pos, scen_mode, fetch_vars,
                   semaphore>>

\* the task running run_forever gets its CancelledError: in sio.wait() it is
\* caught and shutdown() starts, inside init() it leaves run_forever()
MainCancelled ==
    /\ signal
    /\ main_pc \in {"connect", "start", "wait"}
    /\ IF main_pc = "wait"
       THEN InvokeEnd(1)
       ELSE main_pc' = "cancelled" /\ UNCHANGED <<main_i, end_calls>>
    /\ UNCHANGED <<gens, totals, side_vars, run_vars, registry_vars, started, session, sio, signal, start_calls,
                   disp_vars, fetch_vars, semaphore>>

\* the awaited on_end handler returns
EndReturns ==
    /\ main_pc = "shutdown"
    /\ InvokeEnd(main_i + 1)
    /\ UNCHANGED <<gens, totals, side_vars, run_vars, registry_vars, started, session, sio, signal, start_calls,
                   disp_vars, fetch_vars, semaphore>>

\* the awaited on_end handler raises: the exception leaves shutdown()
EndRaises ==
    /\ main_pc = "shutdown"
    /\ main_pc' = "crashed"
    /\ handler_failed' = TRUE
    /\ UNCHANGED <<gens, totals, side_vars, run_vars, registry_vars, started, session, sio, main_i, signal,
                   start_calls, end_calls, betting_status, game_mode, msgs,
                   last_snap, early, scen_pos, scen_mode, fetch_vars,
                   semaphore>>

\* sio.disconnect() returns
Disconnected ==
    /\ main_pc = "disconnect"
    /\ sio' = "disconnected"
    /\ main_pc' = "close"
    /\ UNCHANGED <<gens, totals, side_vars, run_vars, registry_vars, started, session, main_i, signal,
                   start_calls, end_calls, disp_vars, fetch_vars, semaphore>>

\* session.close() returns; run_forever() leaves its loop
Closed ==
    /\ main_pc = "close"
    /\ session' = "closed"
    /\ main_pc' = "stopped"
    /\ UNCHANGED <<gens, totals, side_vars, run_vars, registry_vars, started, sio, main_i, signal, start_calls,
                   end_calls, disp_vars, fetch_vars, semaphore>>

\* a run loop that lets an exception from sio.wait() out of run_forever()
AfterFaultLeaves == "crashed"

\* "except Exception as e: logger.info(...)": the loop body ends and the next
\* iteration awaits sio.wait() again, with no call of sio.connect in between
AfterFault == "wait"

\* sio.wait() raises an exception that is not a CancelledError, with the
\* connection lost (dropped) or still there
WaitFaults(dropped) ==
    /\ main_pc = "wait"
    /\ ~signal
    /\ faults < MaxFaults
    /\ faults' = faults + 1
    /\ main_pc' = AfterFault
    /\ sio' = IF dropped THEN "dropped" ELSE sio
    /\ UNCHANGED <<gens, totals, side_vars, connects, login, registry_vars, started, session,
                   main_i, signal, start_calls, end_calls, disp_vars,
                   fetch_vars, semaphore>>

\* the task running run_forever() is cancelled (task.cancel()); no other
\* task is
CancelRun ==
    /\ ~signal
    /\ main_pc \in {"connect", "start", "wait"}
    /\ signal' = TRUE
    /\ UNCHANGED <<gens, totals, side_vars, run_vars, registry_vars, started, session, sio, main_pc,
                   main_i, start_calls, end_calls, disp_vars, fetch_vars,
                   semaphore>>

\* init() entered through login(): the on_start loop reaches handler i
LoginInvokeStart(i) ==
    IF i <= Len(triggers["start"])
    THEN /\ login' = [pc |-> "start", i |-> i]
         /\ start_calls' = [start_calls EXCEPT ![triggers["start"][i]] = @ + 1]
         /\ UNCHANGED started
    ELSE /\ login' = [pc |-> "done", i |-> 0]
         /\ started' = TRUE
         /\ UNCHANGED start_calls

\* a coroutine calls login() on the running client: login() awaits init(),
\* which finds semaphore, session and sio made and goes to "if not
\* self._started"
LoginCalls ==
    /\ login.pc = "idle"
    /\ sio # "None"
    /\ main_pc \in {"connect", "start", "wait"}
    /\ IF started
       THEN login' = [pc |-> "done", i |-> 0]
            /\ UNCHANGED <<started, start_calls>>
       ELSE LoginInvokeStart(1)
    /\ UNCHANGED <<gens, totals, side_vars, faults, connects, registry_vars, session, sio, main_pc,
                   main_i, signal, end_calls, disp_vars, fetch_vars,
                   semaphore>>

\* the on_start handler awaited by that init() returns
LoginStartReturns ==
    /\ login.pc = "start"
    /\ LoginInvokeStart(login.i + 1)
    /\ UNCHANGED <<gens, totals, side_vars, faults, connects, registry_vars, session, sio, main_pc,
                   main_i, signal, end_calls, disp_vars, fetch_vars,
                   semaphore>>

\* the on_start handler awaited by that init() raises: the exception leaves
\* init() and login()
LoginStartRaises ==
    /\ login.pc = "start"
    /\ login' = [login EXCEPT !.pc = "raised"]
    /\ handler_failed' = TRUE
    /\ UNCHANGED <<gens, totals, side_vars, faults, connects, registry_vars, life_vars,
                   betting_status, game_mode, msgs, last_snap, early, scen_pos,
                   scen_mode, fetch_vars, semaphore>>

(***************************************************************************)
(* _on_message and the dispatch of transitions                             *)
(*                                                                         *)
(* A task's record holds the snapshot it fetched (status, mode), the       *)
(* snapshot of the message before it (prev), the gather it awaits (kind,   *)
(* pending: the handlers still running, resume: where it goes on) and      *)
(* what it has dispatched (fired: one entry per gather call, with the      *)
(* handlers started).  asyncio.gather over an empty list is done at once,  *)
(* so the task goes on without suspending.                                 *)
(***************************************************************************)
InProgress(r) == r.pc \in {"fetch", "gather"}

\* shutdown() has called its first on_end handler
ShutdownBegun == \E h \in Handlers : end_calls[h] > 0

\* a gather that leaves out the last function of the list
StartedAllButLast(kind) ==
    SubSeq(triggers[kind], 1, Len(triggers[kind]) - 1)

\* "[f(...) for f in self._on_<kind>_triggers]": the handlers a gather starts
\* are all the functions of the kind's list, in its order
StartedHandlers(kind) == triggers[kind]

\* what a handler of the kind is called with besides the status or the mode:
\* "self._red_team_name, self._red_bets, self._blue_team_name,
\* self._blue_bets" as they are stored when the gather is built (seen), and
\* nothing for the handlers of a mode kind
HandlerArgs(kind, seen) ==
    IF kind \in {"change", "open", "locked", "payout"} THEN seen ELSE NoData

\* the record of an _on_message task at the end of a stretch
Rest(r) == [r EXCEPT !.seen = NoData]

\* asyncio.gather(*[f(...) for f in <kind> triggers]): every handler of the
\* kind is started
Started(r, kind) ==
    [r EXCEPT !.fired = Append(@, [kind |-> kind,
                                   handlers |-> StartedHandlers(kind),
                                   shut |-> ShutdownBegun,
                                   args |-> HandlerArgs(kind, r.seen)])]

Suspend(r, kind, resume) ==
    [r EXCEPT !.pc = "gather", !.kind = kind, !.resume = resume,
              !.pending = Range(triggers[kind])]

Finished(r) ==
    [r EXCEPT !.pc = "done", !.kind = "none", !.resume = "none", !.pending = {}]

\* a comparison that takes every snapshot for a change
StatusChangedAlways(r, bs) == TRUE

\* a slip in the comparison: a change to UNKNOWN is not taken for a change
StatusChangedButUnknown(r, bs) == r.status # bs /\ r.status # "UNKNOWN"

\* "if betting_status != self._betting_status"
StatusChanged(r, bs) == r.status # bs

\* "if game_mode != self._game_mode"
ModeChanged(r, gm) == r.mode # gm

\* _trigger_mode_change, after its first gather
ModeSpecific(r) ==
    LET kind == ModeKind(r.mode) IN
    IF kind = "none" THEN Finished(r)
    ELSE IF triggers[kind] = <<>> THEN Finished(Started(r, kind))
    ELSE Suspend(Started(r, kind), kind, "done")

\* _on_message from "game_mode = state['mode']" on; gm is _game_mode
CompareMode(r, gm) ==
    LET r1 == [r EXCEPT !.compared = TRUE] IN
    IF ModeChanged(r, gm)
    THEN IF triggers["mode_change"] = <<>>
         THEN ModeSpecific(Started(r1, "mode_change"))
         ELSE Suspend(Started(r1, "mode_change"), "mode_change", "mode_specific")
    ELSE Finished(r1)

\* _trigger_betting_change, after its first gather
BettingSpecific(r, gm) ==
    LET kind == BettingKind(r.status) IN
    IF kind = "none" THEN CompareMode(r, gm)
    ELSE IF triggers[kind] = <<>> THEN CompareMode(Started(r, kind), gm)
    ELSE Suspend(Started(r, kind), kind, "mode")

\* _on_message from "betting_status = state['status']" on; bs is
\* _betting_status, gm is _game_mode
CompareStatus(r, bs, gm) ==
    IF StatusChanged(r, bs)
    THEN IF triggers["change"] = <<>>
         THEN BettingSpecific(Started(r, "change"), gm)
         ELSE Suspend(Started(r, "change"), "change", "specific")
    ELSE CompareMode(r, gm)

\* the task goes on after the gather it awaited
Resumed(r, gm) ==
    IF r.resume = "specific" THEN BettingSpecific(r, gm)
    ELSE IF r.resume = "mode" THEN CompareMode(r, gm)
    ELSE IF r.resume = "mode_specific" THEN ModeSpecific(r)
    ELSE Finished(r)

\* _game_mode after a stretch of _on_message that took record old to record new
ModeAfter(old, new) ==
    IF new.compared /\ ~old.compared THEN new.mode ELSE game_mode

\* a push notification arrives: socketio starts a task running _on_message,
\* which awaits _get_state()
Deliver(m) ==
    /\ sio = "connected"
    /\ ~InProgress(msgs[m])
    /\ \A k \in Slots : k < m => InProgress(msgs[k])
    /\ msgs' = [msgs EXCEPT ![m] = [NoMsg EXCEPT !.pc = "fetch"]]
    /\ early' = (early \/ ~started)
    /\ UNCHANGED <<gens, totals, side_vars, run_vars, registry_vars, life_vars, betting_status, game_mode,
                   last_snap, handler_failed, scen_pos, scen_mode, fetch_vars,
                   semaphore>>

\* _get_state() returns the parsed state.json; _on_message runs to its first
\* suspension or to its end
Fetched(m, status, alert, remaining, data) ==
    /\ msgs[m].pc = "fetch"
    /\ totals' = data
    /\ LET r == [msgs[m] EXCEPT !.status = _status_to_MatchStatus(status),
                                !.mode = StateMode(alert, remaining),
                                !.prev = last_snap,
                                !.data = data,
                                !.seen = data]
           new == CompareStatus(r, betting_status, game_mode)
           on == /\ scen_pos >= 0
                 /\ scen_pos < Len(Scenario)
                 /\ r.status = Scenario[scen_pos + 1]
                 /\ (scen_pos = 0 \/ r.mode = scen_mode)
       IN /\ msgs' = [msgs EXCEPT ![m] = Rest(new)]
          /\ betting_status' = r.status
          /\ game_mode' = ModeAfter(r, new)
          /\ last_snap' = [status |-> r.status, mode |-> r.mode, real |-> TRUE]
          /\ scen_pos' = IF on THEN scen_pos + 1 ELSE -1
          /\ scen_mode' = IF on THEN r.mode ELSE "UNKNOWN"
    /\ UNCHANGED <<gens, side_vars, run_vars, registry_vars, life_vars,
                   handler_failed, early, fetch_vars, semaphore>>

\* a failed fetch taken for a snapshot with status and mode UNKNOWN
OnFetchFailureAsUnknown(r) == CompareStatus(r, betting_status, game_mode)

\* "state = await self._get_state()" raises: the exception leaves _on_message
\* before any of its assignments
OnFetchFailure(r) == [r EXCEPT !.pc = "failed"]

\* the request for state.json, or the parsing of the answer, raises
FetchFails(m) ==
    /\ msgs[m].pc = "fetch"
    /\ msgs' = [msgs EXCEPT ![m] = OnFetchFailure([msgs[m] EXCEPT !.got = "error"])]
    /\ UNCHANGED <<gens, totals, side_vars, run_vars, registry_vars, life_vars,
                   betting_status, game_mode, last_snap, handler_failed, early,
                   scen_pos, scen_mode, fetch_vars, semaphore>>

\* a handler started by the awaited gather returns
HandlerReturns(m, h) ==
    /\ msgs[m].pc = "gather"
    /\ h \in msgs[m].pending
    /\ msgs' = [msgs EXCEPT ![m].pending = @ \ {h}]
    /\ UNCHANGED <<gens, totals, side_vars, run_vars, registry_vars, life_vars, betting_status, game_mode,
                   last_snap, handler_failed, early, scen_pos, scen_mode,
                   fetch_vars, semaphore>>

\* a handler started by the awaited gather raises: gather passes the exception
\* on at once, and it leaves _trigger_*_change and _on_message; the other
\* handlers of the gather are not cancelled and run on
HandlerRaises(m, h) ==
    /\ msgs[m].pc = "gather"
    /\ h \in msgs[m].pending
    /\ msgs' = [msgs EXCEPT ![m].pc = "raised", ![m].raised = msgs[m].kind,
                            ![m].pending = @ \ {h}]
    /\ handler_failed' = TRUE
    /\ UNCHANGED <<gens, totals, side_vars, run_vars, registry_vars, life_vars, betting_status, game_mode,
                   last_snap, early, scen_pos, scen_mode, fetch_vars,
                   semaphore>>

\* a handler that ran on after its gather had raised comes to its end
LeftHandlerEnds(m, h) ==
    /\ msgs[m].pc = "raised"
    /\ h \in msgs[m].pending
    /\ msgs' = [msgs EXCEPT ![m].pending = @ \ {h}]
    /\ UNCHANGED <<gens, totals, side_vars, run_vars, registry_vars, life_vars, betting_status, game_mode,
                   last_snap, handler_failed, early, scen_pos, scen_mode,
                   fetch_vars, semaphore>>

\* every handler of the awaited gather has returned: the task goes on
GatherDone(m) ==
    /\ msgs[m].pc = "gather"
    /\ msgs[m].pending = {}
    /\ LET new == Resumed([msgs[m] EXCEPT !.seen = totals], game_mode)
       IN /\ msgs' = [msgs EXCEPT ![m] = Rest(new)]
          /\ game_mode' = ModeAfter(msgs[m], new)
    /\ UNCHANGED <<gens, totals, side_vars, run_vars, registry_vars, life_vars, betting_status, last_snap,
                   handler_failed, early, scen_pos, scen_mode, fetch_vars,
                   semaphore>>

\* notifications are taken one at a time: none arrives while an _on_message
\* is running
DeliverOne ==
    /\ \A k \in Slots : ~InProgress(msgs[k])
    /\ Deliver(1)

NextDispatch ==
    \/ Setup
    \/ RunForever
    \/ Connected
    \/ ConnectFails
    \/ StartReturns
    \/ StartRaises
    \/ DeliverOne
    \/ \E m \in Slots : \E status \in RawStatus, alert \in RawAlert,
                           remaining \in RawRemaining, data \in Data :
           Fetched(m, status, alert, remaining, data)
    \/ \E m \in Slots, h \in Handlers : HandlerReturns(m, h)
    \/ \E m \in Slots, h \in Handlers : HandlerRaises(m, h)
    \/ \E m \in Slots, h \in Handlers : LeftHandlerEnds(m, h)
    \/ \E m \in Slots : GatherDone(m)

\* the client with notifications taken one at a time
SpecDispatch == Init /\ [][NextDispatch]_vars

\* the statuses and the footer texts of the notifications of a whole run
RunStatus == {"open", "locked"}
RunAlert == {""}
RunRemaining == {"in the bracket!"}

(***************************************************************************)
(* WebsocketClient: run() and _on_message.                                 *)
(***************************************************************************)
\* the attributes an instance of WebsocketClient has after __init__: the
\* methods of WebsocketClient and BasicClient that _on_message could call and
\* the fields the two __init__ assign
WsAttributes ==
    {"get_state", "_get_raw_state_json", "_status_to_MatchStatus",
     "_trigger_betting_change", "_trigger_mode_change", "_match", "running",
     "sio", "initialized", "session"}

\* WebsocketClient._on_message on client w with a state.json of the given
\* status and mode: an attribute that is missing raises AttributeError where
\* it is read
WsOnMessage(w, status, mode) ==
    IF "_get_state" \notin WsAttributes
    THEN [how |-> "AttributeError", w |-> w,
          against |-> [status |-> "none", mode |-> "none"]]
    ELSE IF w.last_match_status = "unset" /\ "_last_match_status" \notin WsAttributes
    THEN [how |-> "AttributeError", w |-> w,
          against |-> [status |-> "none", mode |-> "none"]]
    ELSE [how |-> "compared",
          w |-> [w EXCEPT !.last_match_status = status,
                          !.last_game_mode = mode],
          against |-> [status |-> w.last_match_status,
                       mode |-> w.last_game_mode]]

\* run(): init(), running = True, sio.connect and sio.wait()
WsRun ==
    /\ ws.pc = "idle"
    /\ setup = Len(Registrations)
    /\ ws' = [ws EXCEPT !.pc = "listening", !.running = TRUE,
                        !.session = "open"]
    /\ UNCHANGED <<gens, totals, sess, pace, run_vars, registry_vars, life_vars,
                   disp_vars, fetch_vars, semaphore>>

\* a push notification arrives at the WebsocketClient
WsMessage(status, mode) ==
    /\ ws.pc = "listening"
    /\ ws.msgs < MaxWsMsgs
    /\ LET res == WsOnMessage(ws, status, mode)
       IN ws' = [res.w EXCEPT
                    !.msgs = @ + 1,
                    !.first = IF ws.msgs = 0 THEN res.how ELSE @,
                    !.against = IF ws.msgs = 0 THEN res.against ELSE @]
    /\ UNCHANGED <<gens, totals, sess, pace, run_vars, registry_vars, life_vars,
                   disp_vars, fetch_vars, semaphore>>

(***************************************************************************)
(* The property getters betting_status, game_mode, red_team_name,          *)
(* blue_team_name, red_bets and blue_bets.                                 *)
(***************************************************************************)
\* the getters, those of the names and the bet totals taken together
Properties == {"betting_status", "game_mode", "totals"}

\* "if self._betting_status == MatchStatus.UNKNOWN" and the like: the getter
\* finds its field at the value __init__ gave it
Unset(prop) ==
    IF prop = "betting_status" THEN betting_status = "UNKNOWN"
    ELSE IF prop = "game_mode" THEN game_mode = "UNKNOWN"
    ELSE totals = NoData

\* a coroutine reads a property whose field is unset: the getter awaits
\* _get_state(store=True), which stores status, mode, names and bet totals
ReadsProperty(prop, status, alert, remaining, data) ==
    /\ session = "open"
    /\ Unset(prop)
    /\ betting_status' = _status_to_MatchStatus(status)
    /\ game_mode' = StateMode(alert, remaining)
    /\ totals' = data
    /\ UNCHANGED <<gens, side_vars, run_vars, registry_vars, life_vars, msgs,
                   last_snap, handler_failed, early, scen_pos, scen_mode,
                   fetch_vars, semaphore>>

NextProps ==
    \/ Setup
    \/ RunForever
    \/ Connected
    \/ ConnectFails
    \/ StartReturns
    \/ StartRaises
    \/ DeliverOne
    \/ \E m \in Slots : \E status \in RunStatus, alert \in RunAlert,
                           remaining \in RunRemaining, data \in Data :
           Fetched(m, status, alert, remaining, data)
    \/ \E m \in Slots, h \in Handlers : HandlerReturns(m, h)
    \/ \E m \in Slots : GatherDone(m)
    \/ \E prop \in Properties, status \in RunStatus, alert \in RunAlert,
          remaining \in RunRemaining, data \in Data :
           ReadsProperty(prop, status, alert, remaining, data)

\* the client with notifications taken one at a time and coroutines that
\* read its properties
SpecProps == Init /\ [][NextProps]_vars

\* shutdown() call k of the WebsocketClient w reaches on_end handler number
\* i of its loop, or is past the loop and awaits sio.disconnect()
WsInvokeEnd(w, k, i) ==
    IF i <= Len(triggers["end"])
    THEN [w EXCEPT !.downs[k] = [pc |-> "end", i |-> i],
                   !.end_calls[triggers["end"][i]] = @ + 1]
    ELSE [w EXCEPT !.downs[k] = [pc |-> "disconnect", i |-> 0]]

\* shutdown() call k is past "if self.running" and enters
\* BasicClient.shutdown(): self.session.close() is called, which raises
\* AttributeError on a session that is None
WsSuperShutdown(w, k) ==
    IF w.session = "None"
    THEN [w EXCEPT !.downs[k] = [pc |-> "raised", i |-> 0]]
    ELSE [w EXCEPT !.downs[k] = [pc |-> "super", i |-> 0]]

\* a coroutine calls shutdown(): run() when it has left its loop, or the
\* user program
WsShutdownCalls(k) ==
    /\ ws.downs[k].pc = "idle"
    /\ \A n \in ShutdownCalls : n < k => ws.downs[n].pc # "idle"
    /\ ws' = IF ws.running THEN WsInvokeEnd(ws, k, 1)
             ELSE WsSuperShutdown(ws, k)
    /\ UNCHANGED <<gens, totals, sess, pace, run_vars, registry_vars, life_vars,
                   disp_vars, fetch_vars, semaphore>>

\* the on_end handler awaited by shutdown() call k returns
WsEndReturns(k) ==
    /\ ws.downs[k].pc = "end"
    /\ ws' = WsInvokeEnd(ws, k, ws.downs[k].i + 1)
    /\ UNCHANGED <<gens, totals, sess, pace, run_vars, registry_vars, life_vars,
                   disp_vars, fetch_vars, semaphore>>

\* the on_end handler awaited by shutdown() call k raises: the exception
\* leaves shutdown()
WsEndRaises(k) ==
    /\ ws.downs[k].pc = "end"
    /\ ws' = [ws EXCEPT !.downs[k] = [pc |-> "raised", i |-> 0]]
    /\ UNCHANGED <<gens, totals, sess, pace, run_vars, registry_vars, life_vars,
                   disp_vars, fetch_vars, semaphore>>

\* sio.disconnect() returns to shutdown() call k, which awaits
\* session.close()
WsDisconnected(k) ==
    /\ ws.downs[k].pc = "disconnect"
    /\ ws' = [ws EXCEPT !.downs[k] = [pc |-> "close", i |-> 0],
                        !.disconnects = @ + 1]
    /\ UNCHANGED <<gens, totals, sess, pace, run_vars, registry_vars, life_vars,
                   disp_vars, fetch_vars, semaphore>>

\* session.close() returns to shutdown() call k: running = False, and the
\* parent's shutdown() is entered
WsClosed(k) ==
    /\ ws.downs[k].pc = "close"
    /\ ws' = WsSuperShutdown([ws EXCEPT !.session = "closed",
                                        !.running = FALSE], k)
    /\ UNCHANGED <<gens, totals, sess, pace, run_vars, registry_vars, life_vars,
                   disp_vars, fetch_vars, semaphore>>

\* the session.close() of BasicClient.shutdown() returns to call k
WsSuperClosed(k) ==
    /\ ws.downs[k].pc = "super"
    /\ ws' = [ws EXCEPT !.downs[k] = [pc |-> "done", i |-> 0],
                        !.session = "closed"]
    /\ UNCHANGED <<gens, totals, sess, pace, run_vars, registry_vars, life_vars,
                   disp_vars, fetch_vars, semaphore>>

NextWsDown ==
    \/ Setup
    \/ WsRun
    \/ \E k \in ShutdownCalls : WsShutdownCalls(k)
    \/ \E k \in ShutdownCalls : WsEndReturns(k)
    \/ \E k \in ShutdownCalls : WsEndRaises(k)
    \/ \E k \in ShutdownCalls : WsDisconnected(k)
    \/ \E k \in ShutdownCalls : WsClosed(k)
    \/ \E k \in ShutdownCalls : WsSuperClosed(k)

\* a WebsocketClient whose shutdown() is called up to MaxShutdowns times
SpecWsDown == Init /\ [][NextWsDown]_vars

NextFirst ==
    \/ Setup
    \/ RunForever
    \/ Connected
    \/ ConnectFails
    \/ StartReturns
    \/ StartRaises
    \/ DeliverOne
    \/ \E m \in Slots : \E status \in RunStatus, alert \in RunAlert,
                           remaining \in RunRemaining, data \in Data :
           Fetched(m, status, alert, remaining, data)
    \/ \E m \in Slots, h \in Handlers : HandlerReturns(m, h)
    \/ \E m \in Slots : GatherDone(m)
    \/ WsRun
    \/ \E status \in MatchStatus, mode \in GameMode : WsMessage(status, mode)

\* a SaltybetClient and a WebsocketClient, each with its notifications
SpecFirst == Init /\ [][NextFirst]_vars

NextOverlap ==
    \/ Setup
    \/ RunForever
    \/ Connected
    \/ ConnectFails
    \/ StartReturns
    \/ StartRaises
    \/ \E m \in Slots : Deliver(m)
    \/ \E m \in Slots : \E status \in RunStatus, alert \in RunAlert,
                           remaining \in RunRemaining, data \in Data :
           Fetched(m, status, alert, remaining, data)
    \/ \E m \in Slots : FetchFails(m)
    \/ \E m \in Slots, h \in Handlers : HandlerReturns(m, h)
    \/ \E m \in Slots, h \in Handlers : HandlerRaises(m, h)
    \/ \E m \in Slots, h \in Handlers : LeftHandlerEnds(m, h)
    \/ \E m \in Slots : GatherDone(m)

\* the client with every notification handled by a task of its own, as
\* socketio starts them
SpecOverlap == Init /\ [][NextOverlap]_vars

(***************************************************************************)
(* _get_html                                                               *)
(*                                                                         *)
(* A caller's record holds its place (pc: "acquire" waits for the          *)
(* semaphore; "pace_sleep", "get", "read" and "limit_sleep" are the awaits *)
(* inside "async with self._semaphore"), the locals of the call (the loop  *)
(* index i, the indices of its two generators, the sleep it is in, out)    *)
(* and what it has done (reqs: requests sent, hits: responses with the     *)
(* limit message, late: requests sent after the task was cancelled,        *)
(* first: the generator indices it began with).  When the call is over its *)
(* locals are gone: the record keeps how it ended, and last_end keeps what *)
(* the call that ended last had done.                                      *)
(***************************************************************************)
Holding(r) == r.pc \in {"pace_sleep", "get", "read", "limit_sleep"}

Over(r) == r.pc \in {"returned", "raised", "cancelled"}

Active(r) == r.pc = "acquire" \/ Holding(r)

\* an elapsed time taken as it is, fractions of a second included
InSecondsExact(elapsed) == elapsed

\* "pendulum.now().diff(self._last_req).in_seconds()": the elapsed time in
\* whole seconds, the fraction dropped; in units, as elapsed is
InSeconds(elapsed) == (elapsed \div JitterRes) * JitterRes

\* "if since_last_req < wait: await asyncio.sleep(wait - since_last_req)":
\* the time the attempt sleeps before its request, 0 for no sleep
PaceSleep(since, wait) == IF since < wait THEN wait - since ELSE 0

\* "async with self.session.get(url)" is entered: the request is sent
Requesting(r) ==
    [r EXCEPT !.pc = "get", !.sleep = 0, !.reqs = @ + 1,
              !.late = IF r.cancel THEN @ + 1 ELSE @]

\* the for loop from its head: the next attempt up to its first await, or the
\* end of the loop; since is the time since _last_req, j is random()
Attempt(r, since, j) ==
    IF RetriesLeft(r.i, r.max_retries)
    THEN LET g == WaitGenerator(NormalFactor, NormalMax, r.normal_n, j) IN
         IF PaceSleep(since, g.value) > 0
         THEN [r EXCEPT !.pc = "pace_sleep", !.normal_n = g.n,
                        !.sleep = PaceSleep(since, g.value)]
         ELSE Requesting([r EXCEPT !.normal_n = g.n])
    ELSE [r EXCEPT !.pc = "returned", !.sleep = 0]

\* how a call that is over left _get_html
Exit(r) ==
    IF r.pc = "returned" THEN "return"
    ELSE IF r.pc = "raised" THEN "raise"
    ELSE "cancel"

\* the record of a caller after a stretch that took its call to new
Settle(new) == IF Over(new) THEN [NoCall EXCEPT !.pc = new.pc] ELSE new

\* the semaphore after a stretch that took a call holding it to new
SemAfter(sem, new) == IF Over(new) THEN SemAfterExit(sem, Exit(new)) ELSE sem

\* last_end after a stretch that took a call to new
EndAfter(new) ==
    IF Over(new)
    THEN [real |-> TRUE, how |-> new.pc, max_retries |-> new.max_retries,
          reqs |-> new.reqs, hits |-> new.hits, out |-> new.out,
          cancelled_at |-> new.cancelled_at, late |-> new.late,
          normal_n |-> new.normal_n, limit_n |-> new.limit_n,
          resp |-> new.resp]
    ELSE last_end

\* a stretch of caller c that holds the semaphore takes its call to new
Step(c, new) ==
    /\ callers' = [callers EXCEPT ![c] = Settle(new)]
    /\ semaphore' = SemAfter(semaphore, new)
    /\ last_end' = EndAfter(new)

\* caller c takes the semaphore and runs the loop to its first await
Enter(c, r, since, j) ==
    LET new == Attempt(r, since, j)
    IN /\ callers' = [callers EXCEPT ![c] = Settle(new)]
       /\ semaphore' = SemAfter(semaphore - 1, new)
       /\ last_end' = EndAfter(new)

\* a task calls _get_html(url, max_retries): both generators are made, and the
\* semaphore is taken if it is free
CallBody(c, max_retries, since, j) ==
    /\ semaphore >= 0
    /\ session = "open"
    /\ callers[c].pc = "idle"
    /\ LET first == [normal_n |-> FreshIndex(last_end.normal_n),
                     limit_n |-> FreshIndex(last_end.limit_n)]
           r == [NoCall EXCEPT !.max_retries = max_retries,
                               !.normal_n = first.normal_n,
                               !.limit_n = first.limit_n,
                               !.first = first]
       IN IF CanAcquire(semaphore)
          THEN Enter(c, r, since, j)
          ELSE /\ callers' = [callers EXCEPT ![c] = [r EXCEPT !.pc = "acquire"]]
               /\ UNCHANGED <<semaphore, last_end>>

Call(c, max_retries, since, j) ==
    /\ CallBody(c, max_retries, since, j)
    /\ UNCHANGED <<gens, totals, side_vars, run_vars, registry_vars, life_vars,
                   disp_vars, last_req>>

\* a caller waiting for the semaphore gets it
Acquired(c, since, j) ==
    /\ callers[c].pc = "acquire"
    /\ ~callers[c].cancel
    /\ CanAcquire(semaphore)
    /\ Enter(c, callers[c], since, j)
    /\ UNCHANGED <<gens, totals, side_vars, run_vars, registry_vars, life_vars, disp_vars, last_req>>

\* the pacing sleep is over: the request is sent
PaceSleepDone(c) ==
    /\ callers[c].pc = "pace_sleep"
    /\ ~callers[c].cancel
    /\ Step(c, Requesting(callers[c]))
    /\ UNCHANGED <<gens, totals, side_vars, run_vars, registry_vars, life_vars, disp_vars, last_req>>

\* a response that is not OK raised out of the call, as raise_for_status
\* would
AfterResponseRaises(ok) == IF ok THEN "read" ELSE "raised"

\* "if not resp.ok: ... break": the loop is left with out still None and the
\* call returns; the body of an OK response is read
AfterResponse(ok) == IF ok THEN "read" ELSE "returned"

\* the response arrives: _last_req is set; a response that is not OK ends the
\* loop, an OK one is read; resp keeps which of the two the call got last
Responded(c, ok) ==
    /\ callers[c].pc = "get"
    /\ ~callers[c].cancel
    /\ last_req' = <<c, callers[c].reqs>>
    /\ Step(c, [callers[c] EXCEPT !.pc = AfterResponse(ok),
                                  !.resp = IF ok THEN "ok" ELSE "bad"])
    /\ UNCHANGED <<gens, totals, side_vars, run_vars, registry_vars, life_vars, disp_vars>>

\* the request or the read of its body raises: the exception leaves _get_html
RequestRaises(c) ==
    /\ callers[c].pc \in {"get", "read"}
    /\ ~callers[c].cancel
    /\ Step(c, [callers[c] EXCEPT !.pc = "raised"])
    /\ UNCHANGED <<gens, totals, side_vars, run_vars, registry_vars, life_vars, disp_vars, last_req>>

\* a limit generator drawn from at every response
LimitDrawnAlways(limited, n, g) == g.n

\* "wait_after_limit = next(limit_wait_gen)" stands inside the test for the
\* limit message: the index of the limit generator after a response, n being
\* its index before and g what a next() yields
LimitDrawn(limited, n, g) == IF limited THEN g.n ELSE n

\* the body is read: with the limit message in it the call draws the next
\* limit wait and sleeps, without it the page is the result
ReadDone(c, limited, j) ==
    /\ callers[c].pc = "read"
    /\ ~callers[c].cancel
    /\ LET g == WaitGenerator(LimitFactor, LimitMax, callers[c].limit_n, j)
       IN Step(c, IF limited
                  THEN [callers[c] EXCEPT !.pc = "limit_sleep",
                                          !.hits = @ + 1,
                                          !.limit_n = LimitDrawn(limited, @, g),
                                          !.sleep = g.value]
                  ELSE [callers[c] EXCEPT !.pc = "returned", !.out = "html",
                                          !.limit_n = LimitDrawn(limited, @, g)])
    /\ UNCHANGED <<gens, totals, side_vars, run_vars, registry_vars, life_vars, disp_vars, last_req>>

\* the sleep after a limit message is over: "continue"
LimitSleepDone(c, since, j) ==
    /\ callers[c].pc = "limit_sleep"
    /\ ~callers[c].cancel
    /\ Step(c, Attempt([callers[c] EXCEPT !.i = @ + 1, !.sleep = 0], since, j))
    /\ UNCHANGED <<gens, totals, side_vars, run_vars, registry_vars, life_vars, disp_vars, last_req>>

\* the task running _get_html is cancelled (task.cancel())
CancelTask(c) ==
    /\ Active(callers[c])
    /\ ~callers[c].cancel
    /\ callers' = [callers EXCEPT ![c].cancel = TRUE]
    /\ UNCHANGED <<gens, totals, side_vars, run_vars, registry_vars, life_vars, disp_vars, last_req, last_end,
                   semaphore>>

\* CancelledError is thrown into _get_html at the await it is suspended in
Cancelled(c) ==
    /\ Active(callers[c])
    /\ callers[c].cancel
    /\ LET r == [callers[c] EXCEPT !.cancelled_at = callers[c].pc,
                                   !.sleep = 0]
           new == IF OnCancel(r.pc) = "get"
                  THEN Requesting(r)
                  ELSE [r EXCEPT !.pc = OnCancel(r.pc)]
       IN /\ callers' = [callers EXCEPT ![c] = Settle(new)]
          /\ semaphore' = IF Holding(callers[c])
                          THEN SemAfter(semaphore, new)
                          ELSE semaphore
          /\ last_end' = EndAfter(new)
    /\ UNCHANGED <<gens, totals, side_vars, run_vars, registry_vars, life_vars, disp_vars, last_req>>

\* the shutdown signal: aiorun cancels every task, the one running
\* run_forever and those running _get_html
ShutdownSignal ==
    /\ ~signal
    /\ main_pc \in {"connect", "start", "wait"}
    /\ signal' = TRUE
    /\ callers' = [c \in Callers |->
                      IF Active(callers[c])
                      THEN [callers[c] EXCEPT !.cancel = TRUE]
                      ELSE callers[c]]
    /\ UNCHANGED <<gens, totals, side_vars, run_vars, registry_vars, started, session, sio, main_pc, main_i,
                   start_calls, end_calls, disp_vars, last_req, last_end,
                   semaphore>>

\* the steps of the tasks that call _get_html with a budget from budgets
Fetching(budgets) ==
    \/ \E c \in Callers, max_retries \in budgets, since \in SinceValues,
          j \in Jitter : Call(c, max_retries, since, j)
    \/ \E c \in Callers, since \in SinceValues, j \in Jitter :
           Acquired(c, since, j)
    \/ \E c \in Callers : PaceSleepDone(c)
    \/ \E c \in Callers, ok \in BOOLEAN : Responded(c, ok)
    \/ \E c \in Callers : RequestRaises(c)
    \/ \E c \in Callers, limited \in BOOLEAN, j \in Jitter :
           ReadDone(c, limited, j)
    \/ \E c \in Callers, since \in SinceValues, j \in Jitter :
           LimitSleepDone(c, since, j)
    \/ \E c \in Callers : Cancelled(c)

(***************************************************************************)
(* The session: logged_in, _login and the scrape_* methods.  The clock     *)
(* counts minutes; a call is short against a minute.  ok says whether a    *)
(* response is OK (in a scrape method: every response of the call), gold   *)
(* whether the page shows the illuminati class,                            *)
(* accepted whether the server takes the sign-in.                          *)
(***************************************************************************)
\* the minutes of a clock step
Ticks == {TTL \div 3}

\* the logged_in property read on session s
LoggedIn(s, ok, gold) ==
    IF ~s.creds
    THEN [value |-> FALSE, requests |-> 0, s |-> s]
    ELSE IF s.now - s.last_login < TTL
    THEN [value |-> s.logged_in, requests |-> 0, s |-> s]
    ELSE IF ~ok
    THEN [value |-> FALSE, requests |-> 1, s |-> s]
    ELSE [value |-> s.signed, requests |-> 1,
          s |-> [s EXCEPT !.logged_in = s.signed,
                          !.illuminati = @ \/ gold,
                          !.verified_at = IF s.signed THEN s.now ELSE @]]

\* a _login that stamps _last_login whatever the check says
LastLoginAfterAnyCheck(s, verified) == s.now

\* "self._last_login = pendulum.now()" is reached only past the raise
LastLoginAfter(s, verified) == IF verified THEN s.now ELSE s.last_login

\* _login() on session s
PrivateLogin(s, ok1, accepted, ok2, gold) ==
    IF ~s.creds
    THEN [raised |-> TRUE, requests |-> 0, posted |-> FALSE,
          recheck |-> "none", s |-> s]
    ELSE LET l1 == LoggedIn(s, ok1, gold) IN
         IF l1.value
         THEN [raised |-> FALSE, requests |-> l1.requests, posted |-> FALSE,
               recheck |-> "none", s |-> l1.s]
         ELSE LET s1 == [l1.s EXCEPT !.signed = @ \/ accepted]
                  l2 == LoggedIn(s1, ok2, gold)
              IN [raised |-> ~l2.value,
                  requests |-> l1.requests + 1 + l2.requests,
                  posted |-> TRUE,
                  recheck |-> IF l2.value THEN "in" ELSE "out",
                  s |-> [l2.s EXCEPT
                            !.last_login = LastLoginAfter(l2.s, l2.value)]]

\* the record of a call that has ended on session s
Op(s, what) ==
    [NoOp EXCEPT !.what = what, !.creds = s.creds,
                 !.age = s.now - s.last_login, !.before = s.last_login,
                 !.since_ok = IF s.ok_at < 0 THEN -1 ELSE s.now - s.ok_at,
                 !.since_verified = IF s.verified_at < 0 THEN -1
                                    ELSE s.now - s.verified_at]

\* login(email, password) stores the credentials
SetCredentials ==
    /\ ~sess.creds
    /\ sess' = [sess EXCEPT !.creds = TRUE]
    /\ UNCHANGED <<gens, totals, pace, ws, run_vars, registry_vars, life_vars,
                   disp_vars, fetch_vars, semaphore>>

\* time passes
Tick(d) ==
    /\ sess.now + d <= MaxNow
    /\ sess' = [sess EXCEPT !.now = @ + d]
    /\ UNCHANGED <<gens, totals, pace, ws, run_vars, registry_vars, life_vars,
                   disp_vars, fetch_vars, semaphore>>

\* the server ends the session
ServerExpires ==
    /\ sess.signed
    /\ sess' = [sess EXCEPT !.signed = FALSE]
    /\ UNCHANGED <<gens, totals, pace, ws, run_vars, registry_vars, life_vars,
                   disp_vars, fetch_vars, semaphore>>

\* a task reads the logged_in property
ReadsLoggedIn(ok, gold) ==
    /\ session = "open"
    /\ LET l == LoggedIn(sess, ok, gold)
       IN sess' = [l.s EXCEPT !.op = [Op(sess, "logged_in") EXCEPT
                                         !.value = l.value,
                                         !.requests = l.requests]]
    /\ UNCHANGED <<gens, totals, pace, ws, run_vars, registry_vars, life_vars,
                   disp_vars, fetch_vars, semaphore>>

\* a task awaits _login()
LogsIn(ok1, accepted, ok2, gold) ==
    /\ session = "open"
    /\ LET res == PrivateLogin(sess, ok1, accepted, ok2, gold)
       IN sess' = [res.s EXCEPT
                      !.ok_at = IF res.raised THEN @ ELSE sess.now,
                      !.op = [Op(sess, "_login") EXCEPT
                                 !.raised = res.raised,
                                 !.requests = res.requests,
                                 !.posted = res.posted,
                                 !.recheck = res.recheck]]
    /\ UNCHANGED <<gens, totals, pace, ws, run_vars, registry_vars, life_vars,
                   disp_vars, fetch_vars, semaphore>>

\* a scrape method that goes on to _get_html whatever _login and illuminati
\* say
MayFetchAlways(raised, illuminati) == TRUE

\* "except HTTPUnauthorized: return None" and "if not await
\* self.illuminati: return None" come before the call of _get_html
MayFetch(raised, illuminati) == ~raised /\ illuminati

\* a task calls scrape_tournament, scrape_match, scrape_compendium or
\* scrape_fighter: _login, then illuminati, then _get_html up to its first
\* await
Scrapes(c, ok, accepted, gold, since, j) ==
    /\ session = "open"
    /\ semaphore >= 0
    /\ LET res == PrivateLogin(sess, ok, accepted, ok, gold)
           il == IF res.raised
                 THEN [value |-> FALSE, requests |-> 0, s |-> res.s]
                 ELSE LoggedIn(res.s, ok, gold)
           fetch == MayFetch(res.raised, il.value /\ il.s.illuminati)
       IN /\ sess' = [il.s EXCEPT
                         !.ok_at = IF res.raised THEN @ ELSE sess.now,
                         !.op = [Op(sess, "scrape") EXCEPT
                                    !.raised = res.raised,
                                    !.requests = res.requests + il.requests,
                                    !.posted = res.posted,
                                    !.recheck = res.recheck,
                                    !.value = il.value /\ il.s.illuminati,
                                    !.fetched = fetch,
                                    !.out = IF fetch THEN "pending"
                                            ELSE "None"]]
          /\ IF fetch
             THEN CallBody(c, DefaultMaxRetries, since, j)
             ELSE UNCHANGED <<callers, semaphore, last_end>>
    /\ UNCHANGED <<gens, totals, pace, ws, run_vars, registry_vars, life_vars,
                   disp_vars, last_req>>

\* the times since _last_req, in units, fractions of a second included
ElapsedValues == 0..(NormalMax * JitterRes + JitterRes)

\* the head of one attempt of _get_html, "since_last_req = ...": elapsed is
\* the time since _last_req
Measures(elapsed) ==
    /\ ~pace.real
    /\ pace.since = -1
    /\ pace' = [pace EXCEPT !.elapsed = elapsed, !.since = InSeconds(elapsed)]
    /\ UNCHANGED <<gens, totals, sess, ws, run_vars, registry_vars, life_vars,
                   disp_vars, fetch_vars, semaphore>>

\* "wait = next(normal_wait_gen)" and the test that follows: n is the index of
\* the normal generator, j is random()
Paces(n, j) ==
    /\ ~pace.real
    /\ pace.since >= 0
    /\ LET wait == WaitGenerator(NormalFactor, NormalMax, n, j).value
       IN pace' = [pace EXCEPT !.real = TRUE, !.wait = wait,
                               !.sleep = PaceSleep(pace.since, wait)]
    /\ UNCHANGED <<gens, totals, sess, ws, run_vars, registry_vars, life_vars,
                   disp_vars, fetch_vars, semaphore>>

NextPace ==
    \/ \E elapsed \in ElapsedValues : Measures(elapsed)
    \/ \E n \in 0..MaxYields, j \in Jitter : Paces(n, j)

\* the pacing decision of _get_html alone
SpecPace == Init /\ [][NextPace]_vars

NextFetch ==
    \/ Setup
    \/ RunForever
    \/ Fetching(RetryBudgets)
    \/ \E c \in Callers : CancelTask(c)

\* tasks that call _get_html on a client whose init() has made the semaphore
\* and the session
SpecFetch == Init /\ [][NextFetch]_vars

\* the steps of callers c whose requests complete and whose task nobody
\* cancels
NextLive ==
    \/ Setup
    \/ RunForever
    \/ \E c \in Callers, since \in SinceValues, j \in Jitter :
           Call(c, ShortBudget, since, j)
    \/ \E c \in Callers, since \in SinceValues, j \in Jitter :
           Acquired(c, since, j)
    \/ \E c \in Callers : PaceSleepDone(c)
    \/ \E c \in Callers, ok \in BOOLEAN : Responded(c, ok)
    \/ \E c \in Callers, limited \in BOOLEAN, j \in Jitter :
           ReadDone(c, limited, j)
    \/ \E c \in Callers, since \in SinceValues, j \in Jitter :
           LimitSleepDone(c, since, j)

\* what the event loop and the server grant caller c: a sleep ends, a request
\* gets its response, a body is read, and a caller waiting for the semaphore
\* gets it at one of its releases (asyncio.Semaphore wakes its waiters in
\* the order they came)
FairCaller(c) ==
    /\ WF_vars(PaceSleepDone(c))
    /\ WF_vars(\E ok \in BOOLEAN : Responded(c, ok))
    /\ WF_vars(\E limited \in BOOLEAN, j \in Jitter : ReadDone(c, limited, j))
    /\ WF_vars(\E since \in SinceValues, j \in Jitter :
                   LimitSleepDone(c, since, j))
    /\ SF_vars(\E since \in SinceValues, j \in Jitter : Acquired(c, since, j))

\* concurrent _get_html calls under a fair event loop
SpecLive == Init /\ [][NextLive]_vars /\ \A c \in Callers : FairCaller(c)

NextShutdown ==
    \/ Setup
    \/ RunForever
    \/ Connected
    \/ ConnectFails
    \/ StartReturns
    \/ StartRaises
    \/ ShutdownSignal
    \/ MainCancelled
    \/ EndReturns
    \/ EndRaises
    \/ Disconnected
    \/ Closed
    \/ Fetching({ShortBudget})

\* the client from its start to its shutdown, with tasks that call _get_html
SpecShutdown == Init /\ [][NextShutdown]_vars

(***************************************************************************)
(* balance and place_bet.  funds is the balance of the account on the      *)
(* server, got whether _get_html returned the page with the balance in it. *)
(***************************************************************************)
\* the balances an account may have, the wagers a caller may ask for
Funds == 0..MaxFunds
Wagers == -1..(MaxFunds + 1)

\* the balance property on session s: 0 when _login raises, when _get_html
\* returns None and when the page has no balance in it
Balance(s, funds, ok, accepted, got, gold) ==
    LET l == PrivateLogin(s, ok, accepted, ok, gold)
    IN [value |-> IF l.raised \/ ~got THEN 0 ELSE funds, s |-> l.s]

\* "if wager > balance: wager = balance"
Capped(wager, balance) == IF wager > balance THEN balance ELSE wager

\* place_bet(side, wager) on session s: whether the bet is posted (bet) and
\* with what wager (sent)
PlaceBet(s, wager, funds, ok, accepted, got, gold) ==
    LET l == PrivateLogin(s, ok, accepted, ok, gold) IN
    IF l.raised
    THEN [raised |-> TRUE, bet |-> FALSE, sent |-> 0, s |-> l.s]
    ELSE IF wager <= 0
    THEN [raised |-> FALSE, bet |-> FALSE, sent |-> 0, s |-> l.s]
    ELSE LET b == Balance(l.s, funds, ok, accepted, got, gold)
         IN [raised |-> FALSE, bet |-> TRUE, sent |-> Capped(wager, b.value),
             s |-> b.s]

\* a task awaits place_bet(side, wager)
PlacesBet(wager, funds, ok, accepted, got, gold) ==
    /\ session = "open"
    /\ LET res == PlaceBet(sess, wager, funds, ok, accepted, got, gold)
       IN sess' = [res.s EXCEPT
                      !.ok_at = IF res.raised THEN @ ELSE sess.now,
                      !.op = [Op(sess, "place_bet") EXCEPT
                                 !.raised = res.raised,
                                 !.asked = wager,
                                 !.funds = funds,
                                 !.bet = res.bet,
                                 !.sent = res.sent,
                                 !.fetched = got]]
    /\ UNCHANGED <<gens, totals, pace, ws, run_vars, registry_vars, life_vars,
                   disp_vars, fetch_vars, semaphore>>

NextBet ==
    \/ Setup
    \/ RunForever
    \/ SetCredentials
    \/ ServerExpires
    \/ \E wager \in Wagers, funds \in Funds, ok \in BOOLEAN,
          accepted \in BOOLEAN, got \in BOOLEAN :
           PlacesBet(wager, funds, ok, accepted, got, FALSE)

\* tasks that place bets on a session that logs in and expires
SpecBet == Init /\ [][NextBet]_vars

NextSession ==
    \/ Setup
    \/ RunForever
    \/ SetCredentials
    \/ \E d \in Ticks : Tick(d)
    \/ ServerExpires
    \/ \E ok \in BOOLEAN, gold \in BOOLEAN : ReadsLoggedIn(ok, gold)
    \/ \E ok1 \in BOOLEAN, accepted \in BOOLEAN, ok2 \in BOOLEAN,
          gold \in BOOLEAN : LogsIn(ok1, accepted, ok2, gold)

\* the session over time: credentials, logged_in and _login
SpecSession == Init /\ [][NextSession]_vars

\* the times since _last_req a scrape call may find: none, and as long as
\* the longest wait
ScrapeSince == {0, NormalMax * JitterRes}

NextScrape ==
    \/ Setup
    \/ RunForever
    \/ SetCredentials
    \/ ServerExpires
    \/ \E c \in Callers, ok \in BOOLEAN, accepted \in BOOLEAN,
          gold \in BOOLEAN, since \in ScrapeSince, j \in Jitter :
           Scrapes(c, ok, accepted, gold, since, j)
    \/ \E d \in Ticks : Tick(d)

\* tasks that call the scrape methods, up to the first await of _get_html
SpecScrape == Init /\ [][NextScrape]_vars

NextRun ==
    \/ Setup
    \/ RunForever
    \/ Connected
    \/ ConnectFails
    \/ StartReturns
    \/ StartRaises
    \/ LoginCalls
    \/ LoginStartReturns
    \/ LoginStartRaises
    \/ \E dropped \in BOOLEAN : WaitFaults(dropped)
    \/ CancelRun
    \/ MainCancelled
    \/ EndReturns
    \/ EndRaises
    \/ Disconnected
    \/ Closed
    \/ DeliverOne
    \/ \E m \in Slots : \E status \in RunStatus, alert \in RunAlert,
                           remaining \in RunRemaining, data \in Data :
           Fetched(m, status, alert, remaining, data)
    \/ \E m \in Slots, h \in Handlers : HandlerReturns(m, h)
    \/ \E m \in Slots, h \in Handlers : HandlerRaises(m, h)
    \/ \E m \in Slots, h \in Handlers : LeftHandlerEnds(m, h)
    \/ \E m \in Slots : GatherDone(m)

\* the client from its start to its shutdown, with push notifications, faults
\* of the push channel and a second call of init()
SpecRun == Init /\ [][NextRun]_vars

(***************************************************************************)
(* _wait_generator on its own: a generator object of each track is         *)
(* iterated; count is the number of values drawn, value the latest,        *)
(* before the one drawn before it, capped whether an earlier value was     *)
(* max_wait.                                                               *)
(***************************************************************************)
NextValue(t, j) ==
    /\ gens[t].count < MaxYields
    /\ LET g == WaitGenerator(Factor(t), MaxWait(t), gens[t].n, j)
       IN gens' = [gens EXCEPT ![t] =
                      [n |-> g.n, count |-> gens[t].count + 1,
                       value |-> g.value, before |-> gens[t].value,
                       capped |-> gens[t].capped
                                  \/ (gens[t].count > 0
                                      /\ gens[t].value = MaxWait(t) * JitterRes)]]
    /\ UNCHANGED <<totals, side_vars, run_vars, registry_vars, life_vars,
                   disp_vars, fetch_vars, semaphore>>

NextGen == \E t \in Tracks, j \in Jitter : NextValue(t, j)

SpecGen == Init /\ [][NextGen]_vars

(***************************************************************************)
(* Properties of the dispatch                                              *)
(***************************************************************************)
\* the kinds a task has dispatched, in order
KindsFired(r) == [i \in 1..Len(r.fired) |-> r.fired[i].kind]

\* how many times a task has dispatched a kind
TimesFired(r, kind) == Cardinality({i \in 1..Len(r.fired) : r.fired[i].kind = kind})

\* C1: with notifications taken one at a time and no handler failing, an
\* _on_message that has run to its end has dispatched the betting-change
\* handlers (once, all of them) exactly if its status differs from the status
\* of the message before it (UNKNOWN before the first), and the mode-change
\* handlers exactly if its mode differs from that message's mode.
C1_TransitionIff ==
    ~handler_failed =>
        \A m \in Slots :
            msgs[m].pc = "done" =>
                /\ TimesFired(msgs[m], "change")
                     = (IF msgs[m].status # msgs[m].prev.status THEN 1 ELSE 0)
                /\ TimesFired(msgs[m], "mode_change")
                     = (IF msgs[m].mode # msgs[m].prev.mode THEN 1 ELSE 0)
                /\ \A i \in 1..Len(msgs[m].fired) :
                       msgs[m].fired[i].handlers = triggers[msgs[m].fired[i].kind]

\* a second message whose status differs from the first one's and whose mode
\* does not has been handled
C1_Witness ==
    /\ ~handler_failed
    /\ msgs[1].pc = "done"
    /\ msgs[1].prev.real
    /\ msgs[1].status # msgs[1].prev.status
    /\ msgs[1].mode = msgs[1].prev.mode
    /\ msgs[1].mode # "UNKNOWN"
    /\ KindsFired(msgs[1]) = <<"change", "locked">>

\* C2: an _on_message that got the same status and mode as the _on_message
\* before it dispatches no handler, whatever happened before.
C2_SameSnapshotNoDispatch ==
    \A m \in Slots :
        ( /\ msgs[m].pc \notin {"none", "fetch"}
          /\ msgs[m].prev.real
          /\ msgs[m].status = msgs[m].prev.status
          /\ msgs[m].mode = msgs[m].prev.mode )
        => msgs[m].fired = <<>>

\* C3: a handler that raises during a dispatch does not end the _on_message
\* that dispatched it: the exception stays inside, the specific handlers of
\* the transition are dispatched and the mode is compared.
C3_FailureIsolated ==
    \A m \in Slots :
        /\ msgs[m].pc # "raised"
        /\ msgs[m].raised # "none" =>
               /\ msgs[m].compared
               /\ (msgs[m].raised = "change" /\ BettingKind(msgs[m].status) # "none")
                      => TimesFired(msgs[m], BettingKind(msgs[m].status)) = 1

\* what the scenario's snapshots dispatch, by position
ScenarioFires ==
    << <<>>, <<"change", "open">>, <<"change", "locked">>, <<"change", "payout">> >>

\* the scenario is under way: its first scen_pos snapshots have been taken, one
\* at a time, after init() had finished, and no handler has failed
OnScenario == scen_pos >= 1 /\ ~early /\ ~handler_failed

Holders == {c \in Callers : Holding(callers[c])}

Sleeps == {"pace_sleep", "limit_sleep"}

\* C4: no two _get_html calls are between acquiring and releasing the
\* semaphore at the same time, so no two of them sleep or request together
C4_OneInFlight == Cardinality(Holders) <= 1

\* a call sleeps inside the semaphore while the other call waits for it
C4_Witness ==
    \E c, d \in Callers :
        /\ callers[c].pc = "pace_sleep"
        /\ callers[d].pc = "acquire"

\* C5: the permit is out only while a call holds it: however a call has ended
\* (page, budget spent, response not OK, exception, cancellation), the permit
\* it took is back
C5_PermitReleased ==
    semaphore >= 0 => semaphore = 1 - Cardinality(Holders)

\* a call was cancelled in a sleep, another raised, and the permit is free
C5_Witness ==
    /\ semaphore = 1
    /\ last_end.how = "cancelled"
    /\ last_end.cancelled_at \in Sleeps
    /\ \E c \in Callers : callers[c].pc = "raised"

\* C6: a call sends at most max_retries requests, and a call that returned
\* after the limit message in every response sent exactly max_retries requests
\* and returned None
C6_BudgetSpent ==
    /\ \A c \in Callers : callers[c].reqs <= callers[c].max_retries
    /\ (last_end.how = "returned" /\ last_end.hits = last_end.reqs)
           => (last_end.reqs = last_end.max_retries /\ last_end.out = "None")
    /\ (last_end.how = "raised") => (last_end.hits < last_end.reqs)

\* a call with the default budget got the limit message ten times
C6_Witness ==
    /\ last_end.how = "returned"
    /\ last_end.max_retries = DefaultMaxRetries
    /\ last_end.hits = DefaultMaxRetries
    /\ last_end.reqs = DefaultMaxRetries
    /\ last_end.out = "None"

C8_WaitValues ==
    \A t \in Tracks :
        /\ gens[t].count >= 1 => gens[t].value <= MaxWait(t) * JitterRes
        /\ gens[t].count >= 2 => gens[t].before <= gens[t].value
        /\ gens[t].capped => gens[t].value = MaxWait(t) * JitterRes

\* both generators have yielded max_wait and values after it
C8_Witness ==
    \A t \in Tracks :
        /\ gens[t].capped
        /\ gens[t].count = MaxYields

\* the task running run_forever has ended
MainOver == main_pc \in {"stopped", "cancelled", "crashed"}

\* C9: after a _get_html call was cancelled in one of its sleeps, that call has
\* sent no further request, the permit is back, and once the task running
\* run_forever has ended every registered on_end handler has run exactly once
C9_CancelledInSleep ==
    (last_end.how = "cancelled" /\ last_end.cancelled_at \in Sleeps)
    => /\ last_end.late = 0
       /\ semaphore = 1 - Cardinality(Holders)
       /\ MainOver => \A h \in Range(triggers["end"]) : end_calls[h] = 1

(***************************************************************************)
(* Properties of the kinds a transition dispatches                         *)
(***************************************************************************)
BettingKinds == {"change", "open", "locked", "payout"}

ModeKinds == {"mode_change", "tournament", "exhibition", "matchmaking"}

IsBettingKind(kind) == kind \in BettingKinds

IsModeKind(kind) == kind \in ModeKinds

\* the betting kinds and the mode kinds a task has dispatched, in order
BettingFired(r) == SelectSeq(KindsFired(r), IsBettingKind)

ModeFired(r) == SelectSeq(KindsFired(r), IsModeKind)

\* the kinds a transition to a status or mode is to dispatch
WithSpecific(generic, specific) ==
    IF specific = "none" THEN <<generic>> ELSE <<generic, specific>>

\* an _on_message has ended, by its return or by an exception
Ended(r) == r.pc \in {"done", "raised"}

\* C11: an _on_message that has ended and whose status differs from the status
\* of the message before it has dispatched betting-change and then the one
\* kind of its status (open, locked, payout; none for UNKNOWN), and no other
\* betting kind
C11_StatusKinds ==
    \A m \in Slots :
        (Ended(msgs[m]) /\ msgs[m].status # msgs[m].prev.status)
        => BettingFired(msgs[m])
             = WithSpecific("change", BettingKind(msgs[m].status))

\* C11 where every handler returns: the same, for an _on_message that has
\* returned in a run in which no handler has raised
C11_StatusKindsNoFailure ==
    ~handler_failed =>
        \A m \in Slots :
            (msgs[m].pc = "done" /\ msgs[m].status # msgs[m].prev.status)
            => BettingFired(msgs[m])
                 = WithSpecific("change", BettingKind(msgs[m].status))

\* C12: an _on_message that has ended and whose mode differs from the mode of
\* the message before it has dispatched mode-change and then the one kind of
\* its mode (tournament, exhibition, matchmaking; none for UNKNOWN) and no
\* other mode kind, and it has dispatched no betting kind unless its status
\* differs as well
C12_ModeKinds ==
    \A m \in Slots :
        Ended(msgs[m]) =>
            /\ msgs[m].mode # msgs[m].prev.mode
                   => ModeFired(msgs[m])
                        = WithSpecific("mode_change", ModeKind(msgs[m].mode))
            /\ msgs[m].status = msgs[m].prev.status
                   => BettingFired(msgs[m]) = <<>>

\* C12 where every handler returns: the same, for an _on_message that has
\* returned in a run in which no handler has raised
C12_ModeKindsNoFailure ==
    ~handler_failed =>
        \A m \in Slots :
            msgs[m].pc = "done" =>
                /\ msgs[m].mode # msgs[m].prev.mode
                       => ModeFired(msgs[m])
                            = WithSpecific("mode_change", ModeKind(msgs[m].mode))
                /\ msgs[m].status = msgs[m].prev.status
                       => BettingFired(msgs[m]) = <<>>

\* the generic kind of a specific kind
GenericOf(kind) == IF kind \in BettingKinds THEN "change" ELSE "mode_change"

IsSpecific(kind) == kind \notin {"change", "mode_change"}

\* C13: whenever an _on_message has started the handlers of a specific kind, it
\* has before that started every handler registered for the generic kind of
\* the same transition
C13_GenericFirst ==
    \A m \in Slots :
        \A i \in 1..Len(msgs[m].fired) :
            IsSpecific(msgs[m].fired[i].kind) =>
                \E j \in 1..(i - 1) :
                    /\ msgs[m].fired[j].kind = GenericOf(msgs[m].fired[i].kind)
                    /\ msgs[m].fired[j].handlers
                         = triggers[GenericOf(msgs[m].fired[i].kind)]

\* the betting-open handlers are running after both betting-change handlers
\* were started
C13_Witness ==
    /\ msgs[1].pc = "gather"
    /\ msgs[1].kind = "open"
    /\ msgs[1].pending # {}
    /\ Len(msgs[1].fired) = 2
    /\ msgs[1].fired[1].kind = "change"
    /\ Len(msgs[1].fired[1].handlers) = 2

(***************************************************************************)
(* Properties of the registry                                              *)
(***************************************************************************)
\* the number of calls of function h a dispatch of a kind makes
Invocations(kind, h) ==
    Cardinality({i \in 1..Len(StartedHandlers(kind)) :
                     StartedHandlers(kind)[i] = h})

\* C14: after any sequence of registration calls a dispatch of a kind calls
\* each function at most once, the function of the latest call exactly once,
\* and that call returned the function it was given
C14_RegisteredOnce ==
    /\ \A kind \in Kinds, h \in Handlers : Invocations(kind, h) <= 1
    /\ last_reg.real =>
           /\ Invocations(last_reg.kind, last_reg.func) = 1
           /\ last_reg.ret = last_reg.func

\* a function was registered for a kind it was already registered for, after
\* another function
C14_Witness ==
    /\ last_reg.real
    /\ last_reg.again
    /\ Len(triggers[last_reg.kind]) = 2
    /\ triggers[last_reg.kind][1] = last_reg.func

(***************************************************************************)
(* Properties of the fan-out                                               *)
(***************************************************************************)
\* C15: when the dispatch call of an _on_message is over, by its return or by
\* an exception of a handler, no handler it started is still running
C15_ReturnsAfterAll ==
    \A m \in Slots : Ended(msgs[m]) => msgs[m].pending = {}

(***************************************************************************)
(* The start and the end of a run.                                         *)
(***************************************************************************)
\* the on_start handlers, the on_end handlers
OnStartHandlers == Range(triggers["start"])
OnEndHandlers == Range(triggers["end"])

\* C16: no on_start handler is ever invoked twice, whoever calls init() and
\* whenever, and when run_forever() awaits sio.wait() every registered
\* on_start handler has been invoked exactly once and init() has marked the
\* client started
C16_StartOnce ==
    /\ \A h \in Handlers : start_calls[h] <= 1
    /\ main_pc = "wait" =>
           /\ started
           /\ \A h \in OnStartHandlers : start_calls[h] = 1

\* run_forever() is in shutdown() or has returned from it
InShutdown == main_pc \in {"shutdown", "disconnect", "close", "stopped"}

\* shutdown() was left by the exception of an on_end handler
ShutdownFailed == main_pc = "crashed" /\ ShutdownBegun

\* C17: shutdown() runs only after the task of run_forever() was cancelled; no
\* on_end handler is invoked twice; sio.disconnect() and session.close() come
\* only after every on_end handler has been invoked once; and a shutdown that
\* was begun ends with every on_end handler invoked once, the channel
\* disconnected, the session closed and the loop left
C17_ShutdownPath ==
    /\ (InShutdown \/ ShutdownBegun) => signal
    /\ \A h \in Handlers : end_calls[h] <= 1
    /\ (main_pc \in {"disconnect", "close", "stopped"}
           \/ sio = "disconnected" \/ session = "closed") =>
           \A h \in OnEndHandlers : end_calls[h] = 1
    /\ main_pc = "stopped" => sio = "disconnected" /\ session = "closed"
    /\ ~ShutdownFailed

\* the gathers of _on_message task r that were started after shutdown() had
\* called its first on_end handler
FiredInShutdown(r) == {i \in 1..Len(r.fired) : r.fired[i].shut}

\* C18: no _on_message task starts the handlers of a status or mode kind
\* once shutdown() has called its first on_end handler
C18_NoDispatchInShutdown ==
    \A m \in Slots : FiredInShutdown(msgs[m]) = {}

\* C19: a step that takes run_forever() out of its wait on sio.wait() is the
\* delivery of its cancellation and leads into shutdown(); a step in which
\* sio.wait() raises a fault leaves run_forever() waiting on sio.wait()
C19_OnlyCancellationLeaves ==
    [][/\ (main_pc = "wait" /\ main_pc' # "wait") =>
              signal /\ main_pc' \in {"shutdown", "disconnect"}
       /\ faults' # faults => main_pc = "wait" /\ main_pc' = "wait"]_vars

\* sio.wait() has raised every fault of the run, and run_forever(), not
\* cancelled, awaits sio.wait()
C19_Witness == faults = MaxFaults /\ main_pc = "wait" /\ ~signal

\* C20: whenever run_forever() awaits sio.wait(), sio.connect has been called
\* once by init() and once more after every fault that sio.wait() raised
C20_ReconnectAfterFault == main_pc = "wait" => connects > faults

(***************************************************************************)
(* Notifications that overlap, the data handlers are called with, and a    *)
(* fetch that fails.                                                       *)
(***************************************************************************)
\* the _on_message tasks between their start and their end
Running == {m \in Slots : InProgress(msgs[m])}

\* C21: at most one _on_message task is between the start of its fetch and the
\* end of its handler fan-out
C21_OneAtATime == Cardinality(Running) <= 1

\* the gathers of _on_message task r whose handlers were called with names
\* and totals that are not those of the snapshot r fetched
ForeignArgs(r) ==
    {i \in 1..Len(r.fired) :
        /\ r.fired[i].kind \in {"change", "open", "locked", "payout"}
        /\ r.fired[i].args # r.data}

\* C22: every handler started for a status transition is called with the
\* names and totals of the snapshot whose fetch led to that transition
C22_OwnSnapshotData == \A m \in Slots : ForeignArgs(msgs[m]) = {}

\* C24: a step in which the fetch of an _on_message task fails ends that task
\* with no handler started, and leaves the stored status, mode, names and
\* totals and the position of run_forever() as they were
C24_FailedFetchNoTransition ==
    [][\A m \in Slots :
          (msgs[m].pc = "fetch" /\ msgs'[m].got = "error") =>
             /\ msgs'[m].fired = <<>>
             /\ ~InProgress(msgs'[m])
             /\ UNCHANGED <<betting_status, game_mode, totals, main_pc>>]_vars

\* a fetch has failed on a client that has a status stored and whose
\* run_forever() awaits sio.wait()
C24_Witness ==
    /\ \E m \in Slots : msgs[m].got = "error"
    /\ betting_status # "UNKNOWN"
    /\ game_mode # "UNKNOWN"
    /\ main_pc = "wait"

(***************************************************************************)
(* The session and the scrape methods.                                     *)
(***************************************************************************)
\* the scrape call that ended last found itself unauthorized
ScrapeUnauthorized == sess.op.what = "scrape" /\ sess.op.raised

\* C23: a scrape call whose _login raises HTTPUnauthorized returns None
\* and has not called _get_html, and the step that takes it leaves the
\* callers of _get_html, the semaphore and _last_req as they were
C23_NoFetchWhenUnauthorized ==
    [][(sess' # sess /\ sess'.op.what = "scrape" /\ sess'.op.raised) =>
          /\ ~sess'.op.fetched
          /\ sess'.op.out = "None"
          /\ UNCHANGED <<callers, semaphore, last_req, last_end>>]_vars

\* a scrape call was rejected by the server, after a sign-in request, while
\* another call holds the semaphore inside _get_html
C23_Witness ==
    /\ ScrapeUnauthorized
    /\ sess.op.creds
    /\ sess.op.posted
    /\ semaphore = 0

(***************************************************************************)
(* Pacing and the two backoff tracks of _get_html.                         *)
(***************************************************************************)
\* C25 as stated: the request is sent no sooner than the wait after
\* _last_req; with the elapsed time below the wait the attempt sleeps the
\* remainder, and with the elapsed time at or above the wait it does not
\* sleep
C25_PaceByElapsed ==
    pace.real =>
        /\ pace.elapsed + pace.sleep >= pace.wait
        /\ pace.elapsed < pace.wait => pace.sleep = pace.wait - pace.elapsed
        /\ pace.elapsed >= pace.wait => pace.sleep = 0

\* the whole seconds of an elapsed time, in units
WholeSeconds(elapsed) ==
    CHOOSE t \in 0..elapsed :
        /\ t % JitterRes = 0
        /\ t <= elapsed
        /\ elapsed < t + JitterRes

\* C25, amended: the request is sent no sooner than the wait after _last_req;
\* with the whole seconds of the elapsed time below the wait the attempt
\* sleeps the wait less these whole seconds, and with them at or above the
\* wait it does not sleep
C25_PaceByWholeSeconds ==
    pace.real =>
        LET t == WholeSeconds(pace.elapsed) IN
        /\ pace.elapsed + pace.sleep >= pace.wait
        /\ t < pace.wait => pace.sleep = pace.wait - t
        /\ t >= pace.wait => pace.sleep = 0

\* the elapsed time has reached the wait, its whole seconds have not, and the
\* attempt sleeps
C25_Witness ==
    /\ pace.real
    /\ pace.elapsed >= pace.wait
    /\ pace.sleep > 0

\* the index at which a track stops growing: the least n whose
\* factor * 2^n is above max_wait
TrackCap(factor, max_wait) ==
    CHOOSE n \in 0..10 :
        /\ factor * (2 ^ n) > max_wait
        /\ \A k \in 0..(n - 1) : factor * (2 ^ k) <= max_wait

\* the index of a track after so many next() calls
IndexAfter(factor, max_wait, draws) ==
    IF draws < TrackCap(factor, max_wait) THEN draws
    ELSE TrackCap(factor, max_wait)

\* the value, in units and without random(), of the limit track's draw
\* number k
LimitBase(k) ==
    IF k - 1 < TrackCap(LimitFactor, LimitMax)
    THEN LimitFactor * (2 ^ (k - 1)) * JitterRes
    ELSE LimitMax * JitterRes

\* the calls that are inside the loop of _get_html
InLoop == {c \in Callers : Holding(callers[c])}

\* C26: in a call inside the loop every attempt before the current one met the
\* limit message; the normal generator has been drawn from once per attempt
\* and the limit generator once per limit message; a call sleeping after a
\* limit message sleeps the value the limit generator yielded; and a call
\* that has ended left its limit generator at one draw per limit message
C26_TracksIndependent ==
    /\ \A c \in InLoop :
          LET r == callers[c] IN
          /\ r.hits = IF r.pc = "limit_sleep" THEN r.i + 1 ELSE r.i
          /\ r.normal_n = IndexAfter(NormalFactor, NormalMax, r.i + 1)
          /\ r.limit_n = IndexAfter(LimitFactor, LimitMax, r.hits)
          /\ r.pc = "limit_sleep" =>
                /\ r.sleep >= LimitBase(r.hits)
                /\ r.sleep < LimitBase(r.hits) + JitterRes
    /\ last_end.real =>
          /\ last_end.limit_n = IndexAfter(LimitFactor, LimitMax, last_end.hits)
          /\ last_end.out = "html" =>
                last_end.normal_n =
                    IndexAfter(NormalFactor, NormalMax, last_end.hits + 1)

\* a call sleeps after its third limit message: the limit track has stopped
\* growing, the normal track has not
C26_Witness ==
    \E c \in Callers :
        /\ callers[c].pc = "limit_sleep"
        /\ callers[c].hits = 3
        /\ callers[c].limit_n = 2
        /\ callers[c].normal_n = 3

(***************************************************************************)
(* The first notification.                                                 *)
(***************************************************************************)
\* C27: until a SaltybetClient has handled its first notification its stored
\* status and mode are UNKNOWN, and the first _on_message of a
\* WebsocketClient compares the snapshot against UNKNOWN and UNKNOWN
C27_FirstAgainstUnknown ==
    /\ ~last_snap.real =>
           betting_status = "UNKNOWN" /\ game_mode = "UNKNOWN"
    /\ ws.first # "none" =>
           /\ ws.first = "compared"
           /\ ws.against = [status |-> "UNKNOWN", mode |-> "UNKNOWN"]

(***************************************************************************)
(* The session cache.                                                      *)
(***************************************************************************)
\* C28: a logged_in read made less than 30 minutes after a _login that
\* succeeded sends no request, and one made 30 minutes or more after it asks
\* the server
C28_CachedThirtyMinutes ==
    (sess.op.what = "logged_in" /\ sess.op.creds /\ sess.op.since_ok >= 0) =>
        /\ sess.op.since_ok < TTL => sess.op.requests = 0
        /\ sess.op.since_ok >= TTL => sess.op.requests = 1

\* C30: _login raises HTTPUnauthorized exactly when the credentials are
\* missing or the logged_in check after the sign-in request says no; then
\* _last_login is what it was, and without credentials no request is sent
C30_UnauthorizedExactly ==
    sess.op.what = "_login" =>
        /\ sess.op.raised <=>
               (~sess.op.creds \/ (sess.op.posted /\ sess.op.recheck = "out"))
        /\ sess.op.raised => sess.last_login = sess.op.before
        /\ ~sess.op.creds => sess.op.requests = 0 /\ ~sess.op.posted

\* a _login with credentials whose sign-in the check afterwards denies
C30_Witness ==
    /\ sess.op.what = "_login"
    /\ sess.op.creds
    /\ sess.op.posted
    /\ sess.op.raised
    /\ sess.op.requests > 0

(***************************************************************************)
(* A response that is not OK.                                              *)
(***************************************************************************)
\* C29: the step in which a call gets a response that is not OK ends the
\* call: it returns None, with no request after that one, _last_req is the
\* time of that request, and the limit generator is where it was
C29_NotOkEndsCall ==
    [][\A c \in Callers :
          (callers[c].pc = "get" /\ Over(callers'[c])
             /\ last_end'.resp = "bad") =>
              /\ callers'[c].pc = "returned"
              /\ last_end'.how = "returned"
              /\ last_end'.out = "None"
              /\ last_end'.reqs = callers[c].reqs
              /\ last_req' = <<c, callers[c].reqs>>
              /\ last_end'.hits = callers[c].hits
              /\ last_end'.limit_n = callers[c].limit_n]_vars

\* a call has ended on a response that was not OK, after a response with the
\* limit message
C29_Witness ==
    /\ last_end.real
    /\ last_end.resp = "bad"
    /\ last_end.hits > 0
    /\ last_end.reqs = last_end.hits + 1

(***************************************************************************)
(* login() from an on_start handler.                                       *)
(***************************************************************************)
\* C31: when login() is called while init() awaits an on_start handler, the
\* init() that login() awaits invokes no on_start handler a second time
C31_LoginFromStartHandler ==
    [][(main_pc = "start" /\ login.pc = "idle" /\ login'.pc # "idle") =>
           \A h \in Handlers : start_calls'[h] <= 1]_vars

(***************************************************************************)
(* Notifications during init().                                            *)
(***************************************************************************)
\* C32: until init() has awaited every on_start handler and marked the
\* client started, no _on_message has started a handler of a status or mode
\* change
C32_NoDispatchBeforeStarted ==
    ~started =>
        \A m \in Slots : msgs[m].pc # "gather" /\ msgs[m].fired = <<>>

(***************************************************************************)
(* The stored status and mode.                                             *)
(***************************************************************************)
\* C33: the stored status and the stored mode change only in a step of an
\* _on_message that is in progress
C33_OnlyOnMessageStores ==
    [][(betting_status' # betting_status \/ game_mode' # game_mode) =>
           \E m \in Slots : InProgress(msgs[m]) /\ msgs'[m] # msgs[m]]_vars

(***************************************************************************)
(* Overlapping notifications and the stored status.                        *)
(***************************************************************************)
\* the number of times the _on_message r has called _trigger_betting_change
ChangeDispatches(r) ==
    Cardinality({i \in DOMAIN r.fired : r.fired[i].kind = "change"})

\* C34: with _on_message executions overlapping in any way, a step that
\* changes the stored status is a step of one _on_message, which dispatches
\* the betting-change handlers once, for that status; and no _on_message
\* dispatches them in a step that leaves the stored status as it was
C34_OneDispatchPerChange ==
    [][/\ betting_status' # betting_status =>
              \E m \in Slots :
                  /\ ChangeDispatches(msgs'[m]) = ChangeDispatches(msgs[m]) + 1
                  /\ msgs'[m].status = betting_status'
                  /\ \A k \in Slots \ {m} : msgs'[k] = msgs[k]
       /\ \A m \in Slots :
              ChangeDispatches(msgs'[m]) > ChangeDispatches(msgs[m]) =>
                  betting_status' # betting_status]_vars

\* two executions overlap, both have fetched the same status, the first has
\* dispatched it and the second has ended without a dispatch
C34_Witness ==
    /\ msgs[1].pc = "gather"
    /\ ChangeDispatches(msgs[1]) = 1
    /\ msgs[2].pc = "done"
    /\ msgs[2].status = msgs[1].status
    /\ msgs[2].status = betting_status
    /\ msgs[2].fired = <<>>

(***************************************************************************)
(* Every call of _get_html ends.                                           *)
(***************************************************************************)
\* C35: with requests that complete and a finite max_retries, a caller that
\* is in _get_html, waiting for the semaphore or holding it, gets to its
\* return
C35_EveryCallReturns ==
    \A c \in Callers : Active(callers[c]) ~> (callers[c].pc = "returned")

\* every caller has returned, the last of them after a response with the
\* limit message
C35_Witness ==
    /\ \A c \in Callers : callers[c].pc = "returned"
    /\ last_end.real
    /\ last_end.hits > 0
    /\ semaphore = 1

(***************************************************************************)
(* An on_end handler that raises.                                          *)
(***************************************************************************)
\* C36: when shutdown() is over, an on_end handler having raised or not,
\* every on_end handler has been invoked, the channel is disconnected and
\* the session is closed
C36_ShutdownDespiteFailure ==
    (main_pc = "stopped" \/ ShutdownFailed) =>
        /\ \A h \in OnEndHandlers : end_calls[h] = 1
        /\ sio = "disconnected"
        /\ session = "closed"

(***************************************************************************)
(* WebsocketClient.shutdown() called more than once.                       *)
(***************************************************************************)
\* C37: whatever the number of shutdown() calls, no on_end handler is
\* invoked twice and sio.disconnect() is not called twice; a client whose
\* run() was never called invokes no on_end handler; and when a shutdown()
\* call made after run() has returned, every on_end handler has been
\* invoked once and the channel has been disconnected
C37_ShutdownIdempotent ==
    /\ \A h \in Handlers : ws.end_calls[h] <= 1
    /\ ws.disconnects <= 1
    /\ ws.pc = "idle" => \A h \in Handlers : ws.end_calls[h] = 0
    /\ (ws.pc # "idle" /\ \E k \in ShutdownCalls : ws.downs[k].pc = "done") =>
           /\ \A h \in OnEndHandlers : ws.end_calls[h] = 1
           /\ ws.disconnects = 1

(***************************************************************************)
(* The wager that is posted.                                               *)
(***************************************************************************)
\* C38: a bet that place_bet posts has a wager above zero and not above the
\* balance of the account; and when _login raises or the wager asked for is
\* not positive, no bet is posted
C38_WagerWithinBounds ==
    sess.op.what = "place_bet" =>
        /\ sess.op.bet => sess.op.sent > 0 /\ sess.op.sent <= sess.op.funds
        /\ (sess.op.raised \/ sess.op.asked <= 0) => ~sess.op.bet

(***************************************************************************)
(* The cache after a check against the server.                             *)
(***************************************************************************)
\* C39: a logged_in read made less than 30 minutes after a logged_in that
\* asked the server and found the login valid sends no request
C39_VerifiedRefreshesCache ==
    (sess.op.what = "logged_in" /\ sess.op.creds
        /\ sess.op.since_verified >= 0 /\ sess.op.since_verified < TTL) =>
        sess.op.requests = 0

====
